---- MODULE Spec2Model ----
(***************************************************************************)
(* Google OAuth2 token lifecycle and the CSRF-protected redirect protocol   *)
(* of ignition-google-api: the WebDev endpoints /google/oauth/start and     *)
(* /google/oauth/redirect, and the token managers of google.auth.           *)
(*                                                                          *)
(* Strings that the code indexes (the query parameters) are sequences of    *)
(* one-character strings; all other strings are TLA+ strings.  Dates are    *)
(* integers, in milliseconds.  Every request handler and every token        *)
(* operation runs in a process; its steps are cut at the accesses to the    *)
(* shared session and to the shared tag store.  Spec runs the processes     *)
(* one after the other (sequential execution), SpecConc interleaves them.   *)
(***************************************************************************)
EXTENDS Integers, Sequences, FiniteSets, TLC

VARIABLES
    session,    \* the WebDev session slot "google_oauth_state"
    tags,       \* the tag store: the two datasets and the UseSA flag
    now,        \* system.date.now(), in milliseconds
    pc,         \* position of every process
    loc,        \* local variables of every process
    used,       \* history: the states uuid4 has generated so far
    exchanges,  \* history: exchange_code_for_tokens invocations per validated state
    last,       \* history: the callback that passed validation and returned last
    ops         \* history: the number of token operations begun

vars == <<session, tags, now, pc, loc, used, exchanges, last, ops>>

----------------------------------------------------------------------------
(* Bounds *)

\* the clock advances this many times
MaxTicks == 1

\* refresh_access_token and _request_access_token are called this many times
MaxOps == 2

Procs == {1, 2}

\* sequential execution needs one process
SeqProcs == {1}

\* the values uuid.uuid4().hex can take (32 hex digits in the code, 2 here)
StateTokens == {<<"a", "b">>, <<"b", "a">>}

----------------------------------------------------------------------------
(* Python values of the query parameters *)

PyNone == [shape |-> "none", v |-> <<>>]
Scalar(s) == [shape |-> "scalar", v |-> s]
List1(s) == [shape |-> "list", v |-> s]        \* the single-element list [s]

\* isinstance(x, (list, tuple))
IsList(x) == x.shape = "list"

\* bool(x): None and "" are false; a one-element list is true
Truthy(x) ==
    \/ x.shape = "list"
    \/ x.shape = "scalar" /\ x.v # <<>>

\* x[0] raises TypeError on None and IndexError on ""
CanIndex0(x) ==
    \/ x.shape = "list"
    \/ x.shape = "scalar" /\ x.v # <<>>

\* x[0]: the element of a list, the first character of a string
Index0(x) == IF x.shape = "list" THEN Scalar(x.v) ELSE Scalar(<<x.v[1]>>)

----------------------------------------------------------------------------
(* The tag store: datasets and their first-row updates (google/auth/code.py) *)

\* expires_in - 60: the safety margin of the token expiry, in seconds
SafetyMargin == 60

\* int(jsonResult.get("expires_in", 3600)) of the service-account grant
SADefaultExpiresIn == 3600

NullDS == [null |-> TRUE, rows |-> <<>>]
DS(rows) == [null |-> FALSE, rows |-> rows]

OAuthRow(cid, sec, rt, at, exp) ==
    [client_id |-> cid, client_secret |-> sec, refresh_token |-> rt,
     access_token |-> at, token_expiry |-> exp]

SARow(email, key, at, exp) ==
    [client_email |-> email, private_key |-> key,
     access_token |-> at, token_expiry |-> exp]

\* ds is None or ds.rowCount == 0
NeedsDefault(ds) == ds.null \/ Len(ds.rows) = 0

\* the default row written at every read
OAuthReadDatasetResets(ds, t) == DS(<<OAuthRow("", "", "", "", t)>>)

\* GoogleOAuthClient._read_dataset: the dataset it leaves in the tag and
\* returns as info["_dataset"]; an absent one is created with a default row
OAuthReadDataset(ds, t) ==
    IF NeedsDefault(ds) THEN DS(<<OAuthRow("", "", "", "", t)>>) ELSE ds

\* GoogleServiceAccountClient._read_dataset: the dataset it leaves in the tag
SAReadDataset(ds, t) ==
    IF NeedsDefault(ds) THEN DS(<<SARow("", "", "", t)>>) ELSE ds

\* the inner loop of _write_dataset: columns present in the update are
\* replaced, the others keep the value of the dataset that was read
UpdateRow(row, upd) ==
    [c \in DOMAIN row |-> IF c \in DOMAIN upd THEN upd[c] ELSE row[c]]

\* the rows after the first not written back
WriteDatasetDropsRows(ds, upd) == DS(<<UpdateRow(ds.rows[1], upd)>>)

\* _write_dataset: only the first row of values["_dataset"] is updated
WriteDataset(ds, upd) ==
    DS([i \in 1..Len(ds.rows) |->
          IF i = 1 THEN UpdateRow(ds.rows[i], upd) ELSE ds.rows[i]])

\* info[...] of _read_dataset: the first row
Info(ds) == ds.rows[1]

\* the margin forgotten
ExpiryNoMargin(t, expires_in) == t + expires_in * 1000

\* system.date.addSeconds(now, expires_in - 60)
Expiry(t, expires_in) == t + (expires_in - SafetyMargin) * 1000

----------------------------------------------------------------------------
(* The token endpoint *)

Fld(k, vals) == {<<>>} \cup {k :> v : v \in vals}

\* the JSON bodies of a 200 answer: every field may be missing
Bodies ==
    {a @@ r @@ e :
        a \in Fld("access_token", {"", "tok1"}),
        r \in Fld("refresh_token", {"r1"}),
        e \in Fld("expires_in", {3600})}
    \cup {[access_token |-> "tok1", refresh_token |-> "", expires_in |-> 3600],
          [access_token |-> "tok2", refresh_token |-> "r2", expires_in |-> 30]}

NoResp == [kind |-> "none", status |-> 0, body |-> <<>>]

\* client.post(...): a timeout raises; otherwise a status and a JSON body
Responses ==
    {[kind |-> "timeout", status |-> 0, body |-> <<>>]}
    \cup {[kind |-> "http", status |-> s, body |-> <<>>] : s \in {201, 401}}
    \cup {[kind |-> "http", status |-> 200, body |-> b] : b \in Bodies}

\* a timeout and the answers to two grants
PlainResponses ==
    {[kind |-> "timeout", status |-> 0, body |-> <<>>],
     [kind |-> "http", status |-> 200, body |->
        [access_token |-> "tok1", refresh_token |-> "r1", expires_in |-> 3600]],
     [kind |-> "http", status |-> 200, body |->
        [access_token |-> "tok2", refresh_token |-> "r2", expires_in |-> 30]]}

\* jsonResult.get(k, d)
JsonGet(body, k, d) == IF k \in DOMAIN body THEN body[k] ELSE d

\* the status check forgotten: only a timeout stops the grant
GrantFailsOnTimeout(resp) == resp.kind = "timeout"

\* the post raised, or "if status != 200: raise"
GrantFails(resp) == resp.kind = "timeout" \/ resp.status # 200

\* the exception of a failed grant
GrantError(resp) == IF resp.kind = "timeout" THEN "Timeout" ELSE "TokenError"

\* the refresh_token of the answer written whether it is empty or not
ExchangeUpdateOverwrites(resp, t) ==
    [access_token |-> JsonGet(resp.body, "access_token", ""),
     token_expiry |-> Expiry(t, JsonGet(resp.body, "expires_in", 0)),
     refresh_token |-> JsonGet(resp.body, "refresh_token", "")]

\* exchange_code_for_tokens, lines 205-218: the update of the first row
ExchangeUpdate(resp, t) ==
    LET at == JsonGet(resp.body, "access_token", "")
        rt == JsonGet(resp.body, "refresh_token", "")
        ex == JsonGet(resp.body, "expires_in", 0)
        base == [access_token |-> at, token_expiry |-> Expiry(t, ex)]
    IN  IF rt # "" THEN base @@ [refresh_token |-> rt] ELSE base

\* exchange_code_for_tokens, line 221: return access_token, refresh_token
ExchangeResult(resp) ==
    <<JsonGet(resp.body, "access_token", ""),
      JsonGet(resp.body, "refresh_token", "")>>

\* the update without its token_expiry column
RefreshUpdateTokenOnly(resp, t) ==
    [access_token |-> JsonGet(resp.body, "access_token", "")]

\* refresh_access_token, lines 262-272
RefreshUpdate(resp, t) ==
    [access_token |-> JsonGet(resp.body, "access_token", ""),
     token_expiry |-> Expiry(t, JsonGet(resp.body, "expires_in", 0))]

\* _request_access_token, lines 478-488
SAUpdate(resp, t) ==
    [access_token |-> JsonGet(resp.body, "access_token", ""),
     token_expiry |->
        Expiry(t, JsonGet(resp.body, "expires_in", SADefaultExpiresIn))]

----------------------------------------------------------------------------
(* The callback endpoint: oauth/redirect/doGet.py *)

\* the values a query parameter is given in the model
CodeValues == {PyNone, Scalar(<<>>), Scalar(<<"c">>), List1(<<"c">>)}
ErrorValues == {PyNone, Scalar(<<>>), Scalar(<<"e">>), List1(<<"e">>)}
StateStrings == {<<>>} \cup StateTokens
StateValues ==
    {PyNone} \cup {Scalar(s) : s \in StateStrings}
             \cup {List1(s) : s \in StateStrings}

\* request["params"]
Requests == [code : CodeValues, error : ErrorValues, state : StateValues]

\* the requests of a browser that follows the protocol or replays a state
PlainRequests ==
    [code : {Scalar(<<"c">>)}, error : {PyNone},
     state : {PyNone} \cup {Scalar(s) : s \in StateTokens}]
NoReq == [code |-> PyNone, error |-> PyNone, state |-> PyNone]

\* lines 25-28 raise: "if isinstance(code, ...): state = state[0]" indexes a
\* state that is None (TypeError) or "" (IndexError)
NormalizeRaises(req) == IsList(req.code) /\ ~CanIndex0(req.state)

\* line 26: None[0] raises TypeError, ""[0] raises IndexError
NormalizeError(req) ==
    IF req.state.shape = "none" THEN "TypeError" ELSE "IndexError"

\* lines 25-28: the state the handler goes on with
NormalizeState(req) ==
    LET s1 == IF IsList(req.code) THEN Index0(req.state) ELSE req.state
    IN  IF IsList(s1) THEN Index0(s1) ELSE s1

\* lines 78-79: the code handed to exchange_code_for_tokens
NormalizeCode(code) == IF IsList(code) THEN Index0(code) ELSE code

NoSession == [present |-> FALSE, value |-> <<>>]

\* session.get("google_oauth_state", None)
SessionGet(sess) == IF sess.present THEN Scalar(sess.value) ELSE PyNone

\* every state a Start has generated is taken
StateInvalidAcceptsUsed(state, expected) ==
    \/ ~Truthy(state)
    \/ ~Truthy(expected)
    \/ state.v \notin used

\* line 56: not state or not expected_state or state != expected_state
StateInvalid(state, expected) ==
    \/ ~Truthy(state)
    \/ ~Truthy(expected)
    \/ state # expected

\* the deletion forgotten
SessionDeleteKeeps(sess) == sess

\* lines 72-75: del session["google_oauth_state"], a KeyError is ignored
SessionDelete(sess) == NoSession

\* the session a callback leaves behind when it returns the invalid-state
\* page, lines 56-69: nothing is deleted there
SessionAfterInvalid(sess) == sess

\* the processes' local variables
\* no assertion was built
NoJwt == [header_b64 |-> "", claims_b64 |-> "", signature_b64 |-> ""]

\* the part of a process that runs an operation of GoogleSheetsClient: the
\* operation, the primitive call it is in, the number of tokens it asked the
\* provider for, the requests it sent to the Sheets API, the answer to the
\* last one, its arguments, the columns it computed and the rows it returns
NoSheets ==
    [op |-> "none", call |-> "none", tokens |-> 0, reqs |-> <<>>,
     answer |-> [kind |-> "none", status |-> 0, values |-> <<>>],
     keys |-> <<>>, stamp |-> FALSE, header |-> <<>>, columns |-> <<>>,
     rows |-> <<>>, n |-> 0, letters |-> <<>>]

\* no key has been loaded
NoKey == [sep |-> <<>>, body |-> <<>>, pem |-> <<>>, b64 |-> <<>>,
          error |-> "none"]

\* no update is waiting to be written back
NoUpd == [access_token |-> "", token_expiry |-> 0]

\* the arguments of build_authorize_url
NoArgs == [scope |-> "", state |-> PyNone]

LocIdle ==
    [kind |-> "none", req |-> NoReq, state |-> PyNone, expected |-> PyNone,
     code |-> PyNone, info |-> NullDS, resp |-> NoResp,
     status |-> 0, page |-> "none", raised |-> "none", opErr |-> "none",
     reached |-> FALSE, passed |-> FALSE, exch |-> 0, posts |-> 0,
     url |-> PyNone, result |-> "", t |-> 0,
     tags0 |-> [OAuthClient |-> NullDS, ServiceAccount |-> NullDS,
                UseSA |-> FALSE],
     session0 |-> NoSession,
     resultRt |-> "", t0 |-> 0, cached |-> FALSE, mgr |-> "none",
     urlScope |-> "", sh |-> NoSheets, jwt |-> NoJwt, key |-> NoKey,
     upd |-> NoUpd, args |-> NoArgs]

\* a process enters a handler or a token operation
Enter(kind, req) ==
    [LocIdle EXCEPT !.kind = kind, !.req = req,
                    !.tags0 = tags, !.session0 = session]

\* an exception leaves the operation the process runs
Raise(l, err) == [l EXCEPT !.raised = err, !.opErr = err]

\* where a token operation returns to: the Sheets operation that asked for
\* the token, else the script that called it
Return(l) == IF l.kind = "sheets" THEN "sh_request" ELSE "done"

\* the page names the exception
CaughtEchoes(l, err) ==
    [l EXCEPT !.opErr = err, !.status = 500, !.page = err]

\* the exchange raised inside the try of the callback: lines 104-114
Caught(l, err) ==
    [l EXCEPT !.opErr = err, !.status = 500, !.page = "internal_error"]

\* return {"html": ...} after servletResponse.setStatus(st); WebDev hands the
\* servlet response to every request, so the guard "is not None" is true
Respond(l, st, pg) == [l EXCEPT !.status = st, !.page = pg]

\* lines 24-69: the way the handler leaves its checks
Branch(req, sess) ==
    IF NormalizeRaises(req) THEN "raise"
    ELSE IF Truthy(req.error) THEN "oauth_error"
    ELSE IF ~Truthy(req.code) THEN "missing_code"
    ELSE IF StateInvalid(NormalizeState(req), SessionGet(sess))
         THEN "invalid_state"
    ELSE "pass"

\* lines 16-69: parameters, the error and code checks, the state validation
CallbackBegin(p, R) ==
    /\ pc[p] = "idle"
    /\ \E req \in R :
         LET l0 == Enter("callback", req)
             l1 == [l0 EXCEPT !.state = NormalizeState(req),
                              !.expected = SessionGet(session),
                              !.reached = TRUE]
             br == Branch(req, session)
         IN  CASE br = "raise" ->
                    /\ loc' = [loc EXCEPT ![p] = [l0 EXCEPT !.raised = NormalizeError(req)]]
                    /\ pc' = [pc EXCEPT ![p] = "done"]
                    /\ UNCHANGED session
               [] br \in {"oauth_error", "missing_code"} ->
                    /\ loc' = [loc EXCEPT ![p] = Respond(l0, 400, br)]
                    /\ pc' = [pc EXCEPT ![p] = "done"]
                    /\ UNCHANGED session
               [] br = "invalid_state" ->
                    /\ loc' = [loc EXCEPT ![p] = Respond(l1, 400, br)]
                    /\ pc' = [pc EXCEPT ![p] = "done"]
                    /\ session' = SessionAfterInvalid(session)
               [] br = "pass" ->
                    /\ loc' = [loc EXCEPT ![p] = [l1 EXCEPT !.passed = TRUE]]
                    /\ pc' = [pc EXCEPT ![p] = "cb_delete"]
                    /\ UNCHANGED session
    /\ UNCHANGED <<tags, now, used, exchanges, last, ops>>

\* lines 71-75: the state is discarded once it has been used
CallbackDelete(p) ==
    /\ pc[p] = "cb_delete"
    /\ session' = SessionDelete(session)
    /\ pc' = [pc EXCEPT ![p] = "cb_exchange"]
    /\ UNCHANGED <<tags, now, loc, used, exchanges, last, ops>>

\* GoogleOAuthClient._read_dataset line 68: system.date.now() of the default
\* row, read after readBlocking returned an absent dataset; loc.info holds
\* the dataset that was read and becomes the default dataset
OAuthDefaultClock(p) ==
    /\ pc[p] \in {"cb_defnow", "st_defnow", "rf_defnow", "og_defnow", "bu_defnow"}
    /\ loc' = [loc EXCEPT ![p].info = OAuthReadDataset(@, now)]
    /\ pc' = [pc EXCEPT ![p] =
                CASE pc[p] = "cb_defnow" -> "cb_default"
                  [] pc[p] = "st_defnow" -> "st_default"
                  [] pc[p] = "rf_defnow" -> "rf_default"
                  [] pc[p] = "og_defnow" -> "og_default"
                  [] pc[p] = "bu_defnow" -> "bu_default"]
    /\ UNCHANGED <<session, tags, now, used, exchanges, last, ops>>

\* GoogleServiceAccountClient._read_dataset line 324: the same clock read
SADefaultClock(p) ==
    /\ pc[p] \in {"sa_defnow", "sg_defnow"}
    /\ loc' = [loc EXCEPT ![p].info = SAReadDataset(@, now)]
    /\ pc' = [pc EXCEPT ![p] =
                IF pc[p] = "sa_defnow" THEN "sa_default" ELSE "sg_default"]
    /\ UNCHANGED <<session, tags, now, used, exchanges, last, ops>>

\* exchange_code_for_tokens, line 174
MissingClient(info) == info.client_id = "" \/ info.client_secret = ""

\* exchange_code_for_tokens lines 172-186, _read_dataset having returned ds:
\* the check of the client
ExchangeAfterRead(p, l, ds) ==
    LET l1 == [l EXCEPT !.info = ds]
    IN  IF MissingClient(Info(ds))
        THEN /\ loc' = [loc EXCEPT ![p] = Caught(l1, "ValueError")]
             /\ pc' = [pc EXCEPT ![p] = "done"]
        ELSE /\ loc' = [loc EXCEPT ![p] = l1]
             /\ pc' = [pc EXCEPT ![p] = "cb_post"]

\* lines 77-85 and exchange_code_for_tokens line 170: the client is
\* constructed outside the try (its constructor reads the tag configuration
\* and may raise); the exchange reads the dataset with readBlocking.  For
\* a dataset that is absent the clock is read and the default row written
\* in later steps
CallbackExchange(p) ==
    /\ pc[p] = "cb_exchange"
    /\ \E ctorOk \in BOOLEAN :
         IF ~ctorOk
         THEN /\ loc' = [loc EXCEPT ![p].raised = "ConfigError"]
              /\ pc' = [pc EXCEPT ![p] = "done"]
              /\ UNCHANGED exchanges
         ELSE LET ds == OAuthReadDataset(tags.OAuthClient, now)
                  l1 == [loc[p] EXCEPT !.code = NormalizeCode(loc[p].req.code),
                                       !.exch = @ + 1]
              IN  /\ exchanges' = [exchanges EXCEPT ![loc[p].expected.v] = @ + 1]
                  /\ IF ds # tags.OAuthClient
                     THEN /\ loc' = [loc EXCEPT ![p] =
                                       [l1 EXCEPT !.info = tags.OAuthClient]]
                          /\ pc' = [pc EXCEPT ![p] = "cb_defnow"]
                     ELSE ExchangeAfterRead(p, l1, ds)
    /\ UNCHANGED <<session, tags, now, used, last, ops>>

\* _read_dataset line 73: writeBlocking of the default dataset, then the
\* exchange goes on with it
CallbackDefault(p) ==
    /\ pc[p] = "cb_default"
    /\ tags' = [tags EXCEPT !.OAuthClient = loc[p].info]
    /\ ExchangeAfterRead(p, loc[p], loc[p].info)
    /\ UNCHANGED <<session, now, used, exchanges, last, ops>>

\* exchange_code_for_tokens lines 188-207: the post, the check of the
\* status and the tokens of a 200 answer
CallbackPost(p, RS) ==
    /\ pc[p] = "cb_post"
    /\ \E resp \in RS :
         LET l1 == [loc[p] EXCEPT !.resp = resp, !.posts = @ + 1]
         IN  IF GrantFails(resp)
             THEN /\ loc' = [loc EXCEPT ![p] = Caught(l1, GrantError(resp))]
                  /\ pc' = [pc EXCEPT ![p] = "done"]
             ELSE /\ loc' = [loc EXCEPT ![p] =
                               [l1 EXCEPT !.result = ExchangeResult(resp)[1],
                                          !.resultRt = ExchangeResult(resp)[2]]]
                  /\ pc' = [pc EXCEPT ![p] = "cb_now"]
    /\ UNCHANGED <<session, tags, now, used, exchanges, last, ops>>

\* exchange_code_for_tokens lines 209-218: system.date.now() is read after
\* the answer, and the update is built with it
CallbackClock(p) ==
    /\ pc[p] = "cb_now"
    /\ loc' = [loc EXCEPT ![p].t = now,
                          ![p].upd = ExchangeUpdate(loc[p].resp, now)]
    /\ pc' = [pc EXCEPT ![p] = "cb_write"]
    /\ UNCHANGED <<session, tags, now, used, exchanges, last, ops>>

\* exchange_code_for_tokens lines 220-221 and doGet lines 87-102: the
\* write-back of _write_dataset and the page of the callback
CallbackWrite(p) ==
    /\ pc[p] = "cb_write"
    /\ tags' = [tags EXCEPT !.OAuthClient =
                   WriteDataset(loc[p].info, loc[p].upd)]
    /\ loc' = [loc EXCEPT ![p] = Respond(loc[p], 200, "success")]
    /\ pc' = [pc EXCEPT ![p] = "done"]
    /\ UNCHANGED <<session, now, used, exchanges, last, ops>>

----------------------------------------------------------------------------
(* The start endpoint: oauth/start/doGet.py *)

\* the state left out of the URL
UrlStateDropped(state) == PyNone

\* build_authorize_url, lines 148-149: the state parameter of the URL
UrlState(state) == IF Truthy(state) THEN state ELSE PyNone

\* build_authorize_url lines 132-156, _read_dataset having returned ds
StartAfterRead(p, l, ds) ==
    /\ IF Info(ds).client_id = ""
       THEN loc' = [loc EXCEPT ![p] = Raise(l, "ValueError")]
       ELSE loc' = [loc EXCEPT ![p] =
                      [l EXCEPT !.url = UrlState(l.args.state),
                                !.page = "redirect"]]
    /\ pc' = [pc EXCEPT ![p] = "done"]

\* lines 45-63: a fresh state is stored in the session, then the client is
\* constructed (which may raise, after the store)
StartRequest(p) ==
    /\ pc[p] = "idle"
    /\ \E st \in StateTokens \ used, ctorOk \in BOOLEAN :
         LET l0 == [Enter("start", NoReq) EXCEPT !.args.state = Scalar(st)]
         IN  /\ session' = [present |-> TRUE, value |-> st]
             /\ used' = used \cup {st}
             /\ IF ~ctorOk
                THEN /\ loc' = [loc EXCEPT ![p] = Raise(l0, "ConfigError")]
                     /\ pc' = [pc EXCEPT ![p] = "done"]
                ELSE /\ loc' = [loc EXCEPT ![p] = l0]
                     /\ pc' = [pc EXCEPT ![p] = "st_read"]
    /\ last' = [valid |-> FALSE, req |-> NoReq]
    /\ UNCHANGED <<tags, now, exchanges, ops>>

\* line 64 and build_authorize_url line 130: the dataset is read
StartRead(p) ==
    /\ pc[p] = "st_read"
    /\ LET ds == OAuthReadDataset(tags.OAuthClient, now)
       IN  IF ds # tags.OAuthClient
           THEN /\ loc' = [loc EXCEPT ![p].info = tags.OAuthClient]
                /\ pc' = [pc EXCEPT ![p] = "st_defnow"]
           ELSE StartAfterRead(p, loc[p], ds)
    /\ UNCHANGED <<session, tags, now, used, exchanges, last, ops>>

\* _read_dataset line 73 on behalf of the Start handler
StartDefault(p) ==
    /\ pc[p] = "st_default"
    /\ tags' = [tags EXCEPT !.OAuthClient = loc[p].info]
    /\ StartAfterRead(p, loc[p], loc[p].info)
    /\ UNCHANGED <<session, now, used, exchanges, last, ops>>

----------------------------------------------------------------------------
(* GoogleOAuthClient.refresh_access_token *)

\* the check of the refresh token left out
MissingRefreshTokenNever(info) == FALSE

\* line 235: not refresh_token
MissingRefreshToken(info) == info.refresh_token = ""

\* lines 231-246, _read_dataset having returned ds: an empty refresh_token
\* raises
RefreshAfterRead(p, l, ds) ==
    LET l0 == [l EXCEPT !.info = ds]
    IN  IF MissingRefreshToken(Info(ds))
        THEN /\ loc' = [loc EXCEPT ![p] = Raise(l0, "ValueError")]
             /\ pc' = [pc EXCEPT ![p] = Return(l)]
        ELSE /\ loc' = [loc EXCEPT ![p] = l0]
             /\ pc' = [pc EXCEPT ![p] = "rf_post"]

\* line 230: the dataset is read; for an absent one the clock is read and
\* the default row written in later steps
RefreshRead(p, l) ==
    /\ LET ds == OAuthReadDataset(tags.OAuthClient, now)
       IN  IF ds # tags.OAuthClient
           THEN /\ loc' = [loc EXCEPT ![p] =
                             [l EXCEPT !.info = tags.OAuthClient]]
                /\ pc' = [pc EXCEPT ![p] = "rf_defnow"]
           ELSE RefreshAfterRead(p, l, ds)
    /\ UNCHANGED tags

\* _read_dataset line 73 on behalf of refresh_access_token
RefreshDefault(p) ==
    /\ pc[p] = "rf_default"
    /\ tags' = [tags EXCEPT !.OAuthClient = loc[p].info]
    /\ RefreshAfterRead(p, loc[p], loc[p].info)
    /\ UNCHANGED <<session, now, used, exchanges, last, ops>>

\* refresh_access_token called by itself
RefreshBegin(p) ==
    /\ pc[p] = "idle"
    /\ ops < MaxOps
    /\ ops' = ops + 1
    /\ RefreshRead(p, Enter("refresh", NoReq))
    /\ UNCHANGED <<session, now, used, exchanges, last>>

\* lines 248-263: the post and the check of the status
RefreshPost(p, RS) ==
    /\ pc[p] = "rf_post"
    /\ \E resp \in RS :
         LET l1 == [loc[p] EXCEPT !.resp = resp, !.posts = @ + 1]
         IN  IF GrantFails(resp)
             THEN /\ loc' = [loc EXCEPT ![p] = Raise(l1, GrantError(resp))]
                  /\ pc' = [pc EXCEPT ![p] = Return(loc[p])]
             ELSE /\ loc' = [loc EXCEPT ![p] = l1]
                  /\ pc' = [pc EXCEPT ![p] = "rf_now"]
    /\ UNCHANGED <<session, tags, now, used, exchanges, last, ops>>

\* lines 265-272: system.date.now() is read after the answer, and the
\* update is built with it
RefreshClock(p) ==
    /\ pc[p] = "rf_now"
    /\ LET upd == RefreshUpdate(loc[p].resp, now)
       IN  loc' = [loc EXCEPT ![p].result = upd.access_token,
                              ![p].t = now, ![p].upd = upd]
    /\ pc' = [pc EXCEPT ![p] = "rf_write"]
    /\ UNCHANGED <<session, tags, now, used, exchanges, last, ops>>

\* lines 273-274: the write-back of _write_dataset, and the return
RefreshWrite(p) ==
    /\ pc[p] = "rf_write"
    /\ tags' = [tags EXCEPT !.OAuthClient =
                   WriteDataset(loc[p].info, loc[p].upd)]
    /\ pc' = [pc EXCEPT ![p] = Return(loc[p])]
    /\ UNCHANGED <<session, now, loc, used, exchanges, last, ops>>

----------------------------------------------------------------------------
(* GoogleServiceAccountClient._request_access_token *)

\* cfg["Scope"].value
Scope == "scope"

\* _load_private_key and the signature succeed on this key only
KeyLoads(pem) == pem = "pem"

\* self.token_uri
TokenUri == "token_uri"

\* exp_sec = now_sec + 3600
JwtLifetime == 3600

\* json.dumps, String.getBytes("UTF-8") and the base64url encoder are
\* injective: an encoded value stands for what was encoded
Base64Url(x) == [b64 |-> x]

\* _load_private_key: the RSA key the PEM text holds
LoadPrivateKey(pem) == [rsa |-> pem]

\* the public key that belongs to a private key
PublicKey(key) == [public |-> key.rsa]

\* Signature.getInstance("SHA256withRSA"), initSign, update, sign: the
\* signature stands for the key and the bytes that were signed
Sign(key, input) == [alg |-> "SHA256withRSA", key |-> key, input |-> input]

\* Signature.initVerify(pub), update(input), verify(sig)
Verifies(pub, input, sig) ==
    /\ sig.alg = "SHA256withRSA"
    /\ PublicKey(sig.key) = pub
    /\ sig.input = input

\* lines 410-419: the header and the claim set; now_sec = now_ms / 1000 is
\* the integer division of Python 2
JwtHeader == [alg |-> "RS256", typ |-> "JWT"]
JwtClaimsMillis(info, t) ==
    [iss |-> info.client_email, scope |-> Scope, aud |-> TokenUri,
     iat |-> t, exp |-> t + JwtLifetime]
JwtClaims(info, t) ==
    [iss |-> info.client_email, scope |-> Scope, aud |-> TokenUri,
     iat |-> t \div 1000, exp |-> (t \div 1000) + JwtLifetime]

\* lines 424-436: signing_input_str = header_b64 + "." + claims_b64
SigningInput(h, c) == <<h, ".", c>>

\* the signature taken over the claims only
BuildJwtAssertionClaimsOnly(info, t) ==
    LET h == Base64Url(JwtHeader)
        c == Base64Url(JwtClaims(info, t))
    IN  [header_b64 |-> h, claims_b64 |-> c,
         signature_b64 |->
            Base64Url(Sign(LoadPrivateKey(info.private_key), <<c>>))]

\* _build_jwt_assertion, lines 403-437: the three segments of the assertion
BuildJwtAssertion(info, t) ==
    LET h == Base64Url(JwtHeader)
        c == Base64Url(JwtClaims(info, t))
    IN  [header_b64 |-> h, claims_b64 |-> c,
         signature_b64 |->
            Base64Url(Sign(LoadPrivateKey(info.private_key),
                           SigningInput(h, c)))]

\* _build_jwt_assertion, lines 398-403 and 430-433: the exception it raises
JwtError(info) ==
    IF info.client_email = "" THEN "ValueError"
    ELSE IF Scope = "" THEN "ValueError"
    ELSE IF info.private_key = "" THEN "ValueError"
    ELSE IF ~KeyLoads(info.private_key) THEN "CryptoError"
    ELSE "none"

\* lines 445-448 and _build_jwt_assertion lines 398-403: the checks and the
\* loading of the key, which precede the clock read of the assertion.  On
\* an absent dataset _read_dataset returns the default dataset itself
\* instead of a dictionary, and info["client_email"] raises
SARequestAfterRead(p, l, ds, absent) ==
    LET l0 == [l EXCEPT !.info = ds]
    IN  IF absent
        THEN /\ loc' = [loc EXCEPT ![p] = Raise(l0, "TypeError")]
             /\ pc' = [pc EXCEPT ![p] = Return(l)]
        ELSE IF JwtError(Info(ds)) # "none"
        THEN /\ loc' = [loc EXCEPT ![p] = Raise(l0, JwtError(Info(ds)))]
             /\ pc' = [pc EXCEPT ![p] = Return(l)]
        ELSE /\ loc' = [loc EXCEPT ![p] = l0]
             /\ pc' = [pc EXCEPT ![p] = "sa_jwt"]

\* _build_jwt_assertion lines 405-437: system.date.now() is read and the
\* assertion is built and signed
SAJwtClock(p) ==
    /\ pc[p] = "sa_jwt"
    /\ loc' = [loc EXCEPT ![p].jwt =
                   BuildJwtAssertion(Info(loc[p].info), now)]
    /\ pc' = [pc EXCEPT ![p] = "sa_post"]
    /\ UNCHANGED <<session, tags, now, used, exchanges, last, ops>>

\* line 444: the dataset is read; for an absent one the clock is read and
\* the default row written in later steps
SARequestRead(p, l) ==
    /\ LET ds == SAReadDataset(tags.ServiceAccount, now)
       IN  IF ds # tags.ServiceAccount
           THEN /\ loc' = [loc EXCEPT ![p] =
                             [l EXCEPT !.info = tags.ServiceAccount]]
                /\ pc' = [pc EXCEPT ![p] = "sa_defnow"]
           ELSE SARequestAfterRead(p, l, ds, FALSE)
    /\ UNCHANGED tags

\* _read_dataset lines 329-330 on behalf of _request_access_token
SARequestDefault(p) ==
    /\ pc[p] = "sa_default"
    /\ tags' = [tags EXCEPT !.ServiceAccount = loc[p].info]
    /\ SARequestAfterRead(p, loc[p], loc[p].info, TRUE)
    /\ UNCHANGED <<session, now, used, exchanges, last, ops>>

\* _request_access_token called by itself
SARequestBegin(p) ==
    /\ pc[p] = "idle"
    /\ ops < MaxOps
    /\ ops' = ops + 1
    /\ SARequestRead(p, Enter("sa", NoReq))
    /\ UNCHANGED <<session, now, used, exchanges, last>>

\* lines 462-479: the post and the check of the status
SARequestPost(p, RS) ==
    /\ pc[p] = "sa_post"
    /\ \E resp \in RS :
         LET l1 == [loc[p] EXCEPT !.resp = resp, !.posts = @ + 1]
         IN  IF GrantFails(resp)
             THEN /\ loc' = [loc EXCEPT ![p] = Raise(l1, GrantError(resp))]
                  /\ pc' = [pc EXCEPT ![p] = Return(loc[p])]
             ELSE /\ loc' = [loc EXCEPT ![p] = l1]
                  /\ pc' = [pc EXCEPT ![p] = "sa_now"]
    /\ UNCHANGED <<session, tags, now, used, exchanges, last, ops>>

\* lines 481-488: system.date.now() is read after the answer, and the
\* update is built with it
SARequestClock(p) ==
    /\ pc[p] = "sa_now"
    /\ LET upd == SAUpdate(loc[p].resp, now)
       IN  loc' = [loc EXCEPT ![p].result = upd.access_token,
                              ![p].t = now, ![p].upd = upd]
    /\ pc' = [pc EXCEPT ![p] = "sa_write"]
    /\ UNCHANGED <<session, tags, now, used, exchanges, last, ops>>

\* lines 489-490: the write-back of _write_dataset, and the return
SARequestWrite(p) ==
    /\ pc[p] = "sa_write"
    /\ tags' = [tags EXCEPT !.ServiceAccount =
                   WriteDataset(loc[p].info, loc[p].upd)]
    /\ pc' = [pc EXCEPT ![p] = Return(loc[p])]
    /\ UNCHANGED <<session, now, loc, used, exchanges, last, ops>>

----------------------------------------------------------------------------
(* get_valid_access_token of both managers and of the provider *)

\* a token_expiry cell that holds no date (expiry is None)
NoDate == -1

\* (not token) or (expiry is None) or expiry.before(now); before is strict
MissAlways(info, t) == TRUE
Miss(info, t) ==
    \/ info.access_token = ""
    \/ info.token_expiry = NoDate
    \/ info.token_expiry < t

\* GoogleOAuthClient.get_valid_access_token, lines 284-285: the token and
\* the expiry of the dataset _read_dataset returned
OAuthGetAfterRead(p, l, ds) ==
    /\ loc' = [loc EXCEPT ![p] = [l EXCEPT !.info = ds, !.mgr = "oauth"]]
    /\ pc' = [pc EXCEPT ![p] = "og_now"]

\* lines 286-291: system.date.now() is read after the dataset; a fresh token
\* is returned, else refresh is called
OAuthGetClock(p) ==
    /\ pc[p] = "og_now"
    /\ LET l0 == [loc[p] EXCEPT !.t0 = now]
           info == Info(loc[p].info)
       IN  IF Miss(info, now)
           THEN /\ loc' = [loc EXCEPT ![p] = l0]
                /\ pc' = [pc EXCEPT ![p] = "og_refresh"]
           ELSE /\ loc' = [loc EXCEPT ![p] =
                             [l0 EXCEPT !.result = info.access_token,
                                        !.cached = TRUE]]
                /\ pc' = [pc EXCEPT ![p] = Return(loc[p])]
    /\ UNCHANGED <<session, tags, now, used, exchanges, last, ops>>

\* line 283: the dataset is read; for an absent one the clock is read and
\* the default row written in later steps
OAuthGetRead(p, l) ==
    /\ LET ds == OAuthReadDataset(tags.OAuthClient, now)
       IN  IF ds # tags.OAuthClient
           THEN /\ loc' = [loc EXCEPT ![p] =
                             [l EXCEPT !.info = tags.OAuthClient,
                                       !.mgr = "oauth"]]
                /\ pc' = [pc EXCEPT ![p] = "og_defnow"]
           ELSE OAuthGetAfterRead(p, l, ds)
    /\ UNCHANGED tags

\* _read_dataset line 73 on behalf of get_valid_access_token
OAuthGetDefault(p) ==
    /\ pc[p] = "og_default"
    /\ tags' = [tags EXCEPT !.OAuthClient = loc[p].info]
    /\ OAuthGetAfterRead(p, loc[p], loc[p].info)
    /\ UNCHANGED <<session, now, used, exchanges, last, ops>>

OAuthGetBegin(p) ==
    /\ pc[p] = "idle"
    /\ ops < MaxOps
    /\ ops' = ops + 1
    /\ OAuthGetRead(p, Enter("oauth_get", NoReq))
    /\ UNCHANGED <<session, now, used, exchanges, last>>

\* line 289: return self.refresh_access_token(), which reads the dataset again
OAuthGetRefresh(p) ==
    /\ pc[p] = "og_refresh"
    /\ RefreshRead(p, loc[p])
    /\ UNCHANGED <<session, now, used, exchanges, last, ops>>

\* GoogleServiceAccountClient.get_valid_access_token, lines 494-495; when
\* the dataset is absent _read_dataset returns the Dataset it wrote and
\* info["access_token"] raises
SAGetAfterRead(p, l, ds, absent) ==
    LET l0 == [l EXCEPT !.info = ds, !.mgr = "sa"]
    IN  IF absent
        THEN /\ loc' = [loc EXCEPT ![p] = Raise(l0, "TypeError")]
             /\ pc' = [pc EXCEPT ![p] = Return(l)]
        ELSE /\ loc' = [loc EXCEPT ![p] = l0]
             /\ pc' = [pc EXCEPT ![p] = "sg_now"]

\* lines 496-501: system.date.now() is read after the dataset; a fresh token
\* is returned, else a token is requested
SAGetClock(p) ==
    /\ pc[p] = "sg_now"
    /\ LET l0 == [loc[p] EXCEPT !.t0 = now]
           info == Info(loc[p].info)
       IN  IF Miss(info, now)
           THEN /\ loc' = [loc EXCEPT ![p] = l0]
                /\ pc' = [pc EXCEPT ![p] = "sg_request"]
           ELSE /\ loc' = [loc EXCEPT ![p] =
                             [l0 EXCEPT !.result = info.access_token,
                                        !.cached = TRUE]]
                /\ pc' = [pc EXCEPT ![p] = Return(loc[p])]
    /\ UNCHANGED <<session, tags, now, used, exchanges, last, ops>>

\* line 493: the dataset is read; for an absent one the clock is read and
\* the default row written in later steps
SAGetRead(p, l) ==
    /\ LET ds == SAReadDataset(tags.ServiceAccount, now)
       IN  IF ds # tags.ServiceAccount
           THEN /\ loc' = [loc EXCEPT ![p] =
                             [l EXCEPT !.info = tags.ServiceAccount,
                                       !.mgr = "sa"]]
                /\ pc' = [pc EXCEPT ![p] = "sg_defnow"]
           ELSE SAGetAfterRead(p, l, ds, FALSE)
    /\ UNCHANGED tags

\* _read_dataset lines 329-330 on behalf of get_valid_access_token
SAGetDefault(p) ==
    /\ pc[p] = "sg_default"
    /\ tags' = [tags EXCEPT !.ServiceAccount = loc[p].info]
    /\ SAGetAfterRead(p, loc[p], loc[p].info, TRUE)
    /\ UNCHANGED <<session, now, used, exchanges, last, ops>>

SAGetBegin(p) ==
    /\ pc[p] = "idle"
    /\ ops < MaxOps
    /\ ops' = ops + 1
    /\ SAGetRead(p, Enter("sa_get", NoReq))
    /\ UNCHANGED <<session, now, used, exchanges, last>>

\* line 499: return self._request_access_token(), which reads the dataset again
SAGetRequest(p) ==
    /\ pc[p] = "sg_request"
    /\ SARequestRead(p, loc[p])
    /\ UNCHANGED <<session, now, used, exchanges, last, ops>>

\* GoogleAuthProvider.get_valid_access_token, lines 541-544: if use_sa
SelectorAlwaysOAuth(flag) == FALSE
Selector(flag) == flag

\* the flag is read from the tag, then the chosen manager is called
ProviderBegin(p) ==
    /\ pc[p] = "idle"
    /\ ops < MaxOps
    /\ ops' = ops + 1
    /\ loc' = [loc EXCEPT ![p] = Enter("provider", NoReq)]
    /\ pc' = [pc EXCEPT ![p] =
                IF Selector(tags.UseSA) THEN "pv_sa" ELSE "pv_oauth"]
    /\ UNCHANGED <<session, tags, now, used, exchanges, last>>

ProviderOAuth(p) ==
    /\ pc[p] = "pv_oauth"
    /\ OAuthGetRead(p, loc[p])
    /\ UNCHANGED <<session, now, used, exchanges, last, ops>>

ProviderSA(p) ==
    /\ pc[p] = "pv_sa"
    /\ SAGetRead(p, loc[p])
    /\ UNCHANGED <<session, now, used, exchanges, last, ops>>

\* an operator or a script writes the UseSA tag
SetUseSA ==
    /\ tags' = [tags EXCEPT !.UseSA = ~@]
    /\ UNCHANGED <<session, now, pc, loc, used, exchanges, last, ops>>

----------------------------------------------------------------------------
(* GoogleOAuthClient.build_authorize_url called by a script *)

\* the scope arguments: None, "" and a scope string
ScopeArgs == {"", "drive"}

\* the state arguments: None, "" and a token
StateArgs == {PyNone, Scalar(<<>>)} \cup {Scalar(st) : st \in StateTokens}

\* lines 136-138: if not scope: scope = self.default_scope
UrlScope(scope) == IF scope = "" THEN Scope ELSE scope

\* line 133: not client_id
MissingClientId(info) == info.client_id = ""

\* lines 132-156, _read_dataset having returned ds: the client_id check and
\* the URL
BuildUrlAfterRead(p, l, ds) ==
    LET l0 == [l EXCEPT !.info = ds]
    IN  /\ IF MissingClientId(Info(ds))
           THEN loc' = [loc EXCEPT ![p] = Raise(l0, "ValueError")]
           ELSE loc' = [loc EXCEPT ![p] =
                          [l0 EXCEPT !.url = UrlState(l.args.state),
                                     !.urlScope = UrlScope(l.args.scope)]]
        /\ pc' = [pc EXCEPT ![p] = "done"]

\* line 130: a script calls build_authorize_url, which reads the dataset
BuildAuthorizeUrl(p) ==
    /\ pc[p] = "idle"
    /\ \E scope \in ScopeArgs, st \in StateArgs :
         LET ds == OAuthReadDataset(tags.OAuthClient, now)
             l0 == [Enter("build_url", NoReq) EXCEPT
                       !.args = [scope |-> scope, state |-> st]]
         IN  IF ds # tags.OAuthClient
             THEN /\ loc' = [loc EXCEPT ![p] =
                               [l0 EXCEPT !.info = tags.OAuthClient]]
                  /\ pc' = [pc EXCEPT ![p] = "bu_defnow"]
             ELSE BuildUrlAfterRead(p, l0, ds)
    /\ UNCHANGED <<session, tags, now, used, exchanges, last, ops>>

\* _read_dataset line 73 on behalf of build_authorize_url
BuildUrlDefault(p) ==
    /\ pc[p] = "bu_default"
    /\ tags' = [tags EXCEPT !.OAuthClient = loc[p].info]
    /\ BuildUrlAfterRead(p, loc[p], loc[p].info)
    /\ UNCHANGED <<session, now, used, exchanges, last, ops>>

----------------------------------------------------------------------------
(* google/google_sheets/code.py: column letters *)

\* divmod(n - 1, 26)
AlphabetSize == 26

\* the docstring of _to_column_letters: "Supports up to 702 ("ZZ")"
MaxColumn == 702

\* chr(ord("A") + rem) for rem = 0..25
Alphabet ==
    <<"A", "B", "C", "D", "E", "F", "G", "H", "I", "J", "K", "L", "M",
      "N", "O", "P", "Q", "R", "S", "T", "U", "V", "W", "X", "Y", "Z">>

RECURSIVE ToColumnLetters(_)

\* the remainder taken of n instead of n - 1
ToColumnLettersOffByOne(n) ==
    IF n > 0
    THEN ToColumnLetters((n - 1) \div AlphabetSize)
            \o <<Alphabet[(n % AlphabetSize) + 1]>>
    ELSE <<>>

\* _to_column_letters: while n > 0, n, rem = divmod(n - 1, 26) and the letter
\* of rem is put in front of the letters found so far
ToColumnLetters(n) ==
    IF n > 0
    THEN ToColumnLetters((n - 1) \div AlphabetSize)
            \o <<Alphabet[((n - 1) % AlphabetSize) + 1]>>
    ELSE <<>>

\* ord(c) - ord("A") + 1
LetterIndex(c) == CHOOSE i \in 1..AlphabetSize : Alphabet[i] = c

\* a < b for strings of capital letters (Python string comparison)
RECURSIVE LexLess(_, _)
LexLess(a, b) ==
    IF a = <<>> THEN b # <<>>
    ELSE IF b = <<>> THEN FALSE
    ELSE IF Head(a) # Head(b) THEN LetterIndex(Head(a)) < LetterIndex(Head(b))
    ELSE LexLess(Tail(a), Tail(b))

\* the sort key lambda x: (len(x), x)
KeyLess(a, b) == Len(a) < Len(b) \/ (Len(a) = Len(b) /\ LexLess(a, b))

\* get_rows, lines 157-162: a row of cells as an OrderedDict from column
\* letters to cells, kept as the sequence of its items
RowDict(row) ==
    [i \in 1..Len(row) |-> [col |-> ToColumnLetters(i), cell |-> row[i]]]

\* append_dict_rows, lines 485-492: the cells of the first row in the order of
\* sorted(header_dict.keys(), key=lambda x: (len(x), x))
HeaderRow(rows) ==
    IF rows = <<>> THEN <<>>
    ELSE LET od == rows[1]
             rank(i) == 1 + Cardinality({j \in 1..Len(od) :
                                            KeyLess(od[j].col, od[i].col)})
         IN  [k \in 1..Len(od) |->
                od[CHOOSE i \in 1..Len(od) : rank(i) = k].cell]

----------------------------------------------------------------------------
(* google/google_sheets/code.py: GoogleSheetsClient *)

\* a caller asks for the letters of column n
ColumnLetters(p) ==
    /\ pc[p] = "idle"
    /\ \E n \in 1..MaxColumn :
         loc' = [loc EXCEPT ![p] =
                   [Enter("letters", NoReq) EXCEPT
                       !.sh.n = n, !.sh.letters = ToColumnLetters(n)]]
    /\ pc' = [pc EXCEPT ![p] = "done"]
    /\ UNCHANGED <<session, tags, now, used, exchanges, last, ops>>

\* the operations that send one request to the Sheets API
SheetsOps ==
    {"get_spreadsheet_resource", "get_rows", "append_rows", "update_rows",
     "clear_rows", "batch_get", "batch_update_values"}

\* client.get, client.post or client.put
SheetsMethod(call) ==
    IF call \in {"get_spreadsheet_resource", "get_rows", "batch_get"} THEN "GET"
    ELSE IF call = "update_rows" THEN "PUT"
    ELSE "POST"

\* the cells of the rows a values.get answers with
SheetValues ==
    {<<>>, <<<<"a">>>>, <<<<"a", "b">>>>, <<<<"a", "t_stamp">>>>}

\* the answers of the Sheets API: no answer within the timeout, or a status
\* and a body
SheetsAnswers ==
    {[kind |-> "timeout", status |-> 0, values |-> <<>>]}
    \cup [kind : {"http"}, status : {200, 201, 403}, values : SheetValues]

\* every status taken for a success
SheetsFailsNever(call, ans) == FALSE

\* the status checks: "status not in (200, 201)" in append_rows (line 206),
\* "status != 200" in the other operations; a timeout raises in the client
SheetsFails(call, ans) ==
    \/ ans.kind = "timeout"
    \/ IF call = "append_rows" THEN ans.status \notin {200, 201}
       ELSE ans.status # 200

\* the exception of a failed request
SheetsError(ans) == IF ans.kind = "timeout" THEN "Timeout" ELSE "Exception"

\* the dictionaries given to append_dict_rows: the keys of the one row
DictKeys == {<<"a">>, <<"a", "c">>, <<"b", "a">>}

\* lines 494-498: columns = list(header_row), with "t_stamp" appended when
\* it is asked for and missing
WithStamp(header, stamp) ==
    IF stamp /\ \A i \in 1..Len(header) : header[i] # "t_stamp"
    THEN Append(header, "t_stamp") ELSE header

\* lines 510-512: the keys that are not in columns are appended, in the
\* order row_dict.keys() gives them
RECURSIVE AddKeys(_, _)
AddKeys(columns, keys) ==
    IF keys = <<>> THEN columns
    ELSE AddKeys(IF \E i \in 1..Len(columns) : columns[i] = Head(keys)
                 THEN columns ELSE Append(columns, Head(keys)),
                 Tail(keys))

\* lines 494-516: the columns after the rows were aligned
Columns(header, keys, stamp) == AddKeys(WithStamp(header, stamp), keys)

\* get_dict_rows, lines 425-428: the cells of the first row in the order of
\* list(header_dict.keys()), the order in which get_rows filled the dict
HeaderCells(rows) ==
    IF rows = <<>> THEN <<>>
    ELSE [i \in 1..Len(rows[1]) |-> rows[1][i].cell]

\* d[k] = v on an OrderedDict kept as the sequence of its items: a key that
\* is there keeps its place
DictSet(items, k, v) ==
    IF \E i \in 1..Len(items) : items[i].key = k
    THEN [i \in 1..Len(items) |->
            IF items[i].key = k THEN [key |-> k, value |-> v] ELSE items[i]]
    ELSE Append(items, [key |-> k, value |-> v])

RECURSIVE RowByHeader(_, _, _, _)
\* get_dict_rows, lines 449-455: the cells of a data row under the names of
\* the header, "" where the row has no cell in that column
RowByHeader(columns, od, i, acc) ==
    IF i > Len(columns) THEN acc
    ELSE RowByHeader(columns, od, i + 1,
                     DictSet(acc, columns[i],
                             IF i <= Len(od) THEN od[i].cell ELSE ""))

\* the operations built on the primitive ones: each starts with a primitive
\* call (get_spreadsheet_resource or get_rows of the header row)
DictOps ==
    {"get_sheet_name_id_map", "get_dict_rows", "append_dict_rows",
     "update_dict_rows", "clear_dict_rows"}

\* the primitive call an operation starts with
FirstCall(op) ==
    IF op \in SheetsOps THEN op
    ELSE IF op = "get_sheet_name_id_map" THEN "get_spreadsheet_resource"
    ELSE "get_rows"

\* what an operation does once the request of a primitive call succeeded,
\* sh holding the requests sent so far, the header and the columns: the next
\* primitive call, "return", or the exception of self.update_range, a
\* method the class does not have (line 530)
SheetsNextCall(sh) ==
    LET n == Len(sh.reqs)
        grown == Len(sh.columns) > Len(sh.header)
    IN  CASE sh.op = "get_dict_rows" ->
                IF n = 1 /\ sh.columns # <<>> THEN "get_rows" ELSE "return"
          [] sh.op = "append_dict_rows" ->
                IF n > 1 THEN "return"
                ELSE IF grown THEN "AttributeError" ELSE "append_rows"
          [] sh.op = "update_dict_rows" ->
                IF n = 1 \/ (n = 2 /\ grown) THEN "update_rows" ELSE "return"
          [] sh.op = "clear_dict_rows" ->
                IF n = 1 /\ sh.columns # <<>> THEN "clear_rows" ELSE "return"
          [] OTHER -> "return"

\* a script calls an operation of the client: a primitive operation,
\* get_sheet_name_id_map, or a dictionary operation with its rows (the keys
\* of the one row and add_t_stamp)
SheetsBegin(p) ==
    /\ pc[p] = "idle"
    /\ ops < MaxOps
    /\ ops' = ops + 1
    /\ \/ \E op \in SheetsOps \cup
                    {"get_sheet_name_id_map", "get_dict_rows", "clear_dict_rows"} :
            loc' = [loc EXCEPT ![p] =
                      [Enter("sheets", NoReq) EXCEPT
                          !.sh = [NoSheets EXCEPT !.op = op,
                                                  !.call = FirstCall(op)]]]
       \/ \E op \in {"append_dict_rows", "update_dict_rows"},
             keys \in DictKeys, stamp \in BOOLEAN :
            loc' = [loc EXCEPT ![p] =
                      [Enter("sheets", NoReq) EXCEPT
                          !.sh = [NoSheets EXCEPT !.op = op,
                                                  !.call = FirstCall(op),
                                                  !.keys = keys,
                                                  !.stamp = stamp]]]
    /\ pc' = [pc EXCEPT ![p] = "sh_token"]
    /\ UNCHANGED <<session, tags, now, used, exchanges, last>>

\* _get_http_client_and_token, lines 55-56: a provider is constructed (its
\* managers read the tag configuration and may raise, auth/code.py lines 44,
\* 311, 532-533) and asked for a token; it reads the flag and calls the
\* manager
SheetsToken(p) ==
    /\ pc[p] = "sh_token"
    /\ \E ctorOk \in BOOLEAN :
         IF ~ctorOk
         THEN /\ loc' = [loc EXCEPT ![p] = Raise(loc[p], "ConfigError")]
              /\ pc' = [pc EXCEPT ![p] = "done"]
         ELSE /\ loc' = [loc EXCEPT ![p].sh.tokens = @ + 1]
              /\ pc' = [pc EXCEPT ![p] =
                          IF Selector(tags.UseSA) THEN "pv_sa" ELSE "pv_oauth"]
    /\ UNCHANGED <<session, tags, now, used, exchanges, last, ops>>

\* the request of the primitive call and what follows it.  An exception of
\* the provider leaves the operation before the request.  The first answer
\* of a dictionary operation is the header row: get_dict_rows takes its
\* cells as the columns (lines 425-431), append_dict_rows and
\* update_dict_rows align the columns to the rows (lines 485-516, 561-584),
\* clear_dict_rows takes its sorted cells (lines 632-636).  The second answer
\* of get_dict_rows holds the data rows (lines 445-457)
SheetsRequest(p) ==
    /\ pc[p] = "sh_request"
    /\ IF loc[p].raised # "none"
       THEN /\ pc' = [pc EXCEPT ![p] = "done"]
            /\ UNCHANGED loc
       ELSE \E ans \in SheetsAnswers :
              LET l == loc[p]
                  req == [call |-> l.sh.call, method |-> SheetsMethod(l.sh.call),
                          bearer |-> l.result]
                  l1 == [l EXCEPT !.sh.reqs = Append(@, req),
                                  !.sh.answer = ans]
                  rows == [i \in 1..Len(ans.values) |-> RowDict(ans.values[i])]
                  header == IF l.sh.op = "get_dict_rows" THEN HeaderCells(rows)
                            ELSE HeaderRow(rows)
                  columns == IF l.sh.op \in {"append_dict_rows", "update_dict_rows"}
                             THEN Columns(header, l.sh.keys, l.sh.stamp)
                             ELSE header
                  l2 == IF l.sh.op \notin DictOps \ {"get_sheet_name_id_map"}
                        THEN l1
                        ELSE IF Len(l1.sh.reqs) = 1
                        THEN [l1 EXCEPT !.sh.header = header,
                                        !.sh.columns = columns]
                        ELSE IF l.sh.op = "get_dict_rows"
                        THEN [l1 EXCEPT !.sh.rows =
                                 [i \in 1..Len(rows) |->
                                    RowByHeader(l.sh.columns, rows[i], 1, <<>>)]]
                        ELSE l1
                  next == SheetsNextCall(l2.sh)
              IN  IF SheetsFails(l.sh.call, ans)
                  THEN /\ loc' = [loc EXCEPT ![p] = Raise(l1, SheetsError(ans))]
                       /\ pc' = [pc EXCEPT ![p] = "done"]
                  ELSE IF next = "AttributeError"
                  THEN /\ loc' = [loc EXCEPT ![p] = Raise(l2, "AttributeError")]
                       /\ pc' = [pc EXCEPT ![p] = "done"]
                  ELSE IF next = "return"
                  THEN /\ loc' = [loc EXCEPT ![p] = l2]
                       /\ pc' = [pc EXCEPT ![p] = "done"]
                  ELSE /\ loc' = [loc EXCEPT ![p] = [l2 EXCEPT !.sh.call = next]]
                       /\ pc' = [pc EXCEPT ![p] = "sh_token"]
    /\ UNCHANGED <<session, tags, now, used, exchanges, last, ops>>

----------------------------------------------------------------------------
(* The environment and the specifications *)

NoLast == [valid |-> FALSE, req |-> NoReq]

\* the handler or the operation returns to its caller
Finish(p) ==
    /\ pc[p] = "done"
    /\ pc' = [pc EXCEPT ![p] = "idle"]
    /\ loc' = [loc EXCEPT ![p] = LocIdle]
    /\ last' = IF loc[p].kind = "callback"
               THEN IF loc[p].passed
                    THEN [valid |-> TRUE, req |-> loc[p].req]
                    ELSE NoLast
               ELSE last
    /\ UNCHANGED <<session, tags, now, used, exchanges, ops>>

\* one step of the clock: the lifetime of a 3600 s grant after its margin
TickStep == (SADefaultExpiresIn - SafetyMargin) * 1000

\* system.date.now() advances
Tick ==
    /\ now < MaxTicks * TickStep
    /\ now' = now + TickStep
    /\ UNCHANGED <<session, tags, pc, loc, used, exchanges, last, ops>>

\* the OAuthClient datasets the tag may hold when the gateway starts
InitOAuth ==
    {NullDS, DS(<<>>),
     DS(<<OAuthRow("cid", "sec", "r0", "tok0", TickStep)>>),
     DS(<<OAuthRow("cid", "", "", "", 0)>>),
     DS(<<OAuthRow("cid", "sec", "", "", 0),
          OAuthRow("cid2", "sec2", "r9", "tok9", 0)>>),
     DS(<<OAuthRow("cid", "sec", "r0", "tok0", 0),
          OAuthRow("cid2", "sec2", "r9", "tok9", 0)>>)}

\* the ServiceAccount datasets the tag may hold when the gateway starts
InitSA ==
    {NullDS,
     DS(<<SARow("sa@x", "pem", "", 0)>>),
     DS(<<SARow("sa@x", "bad", "tok0", TickStep)>>),
     DS(<<SARow("", "pem", "", 0)>>),
     DS(<<SARow("sa@x", "pem", "", 0), SARow("sa2@x", "pem2", "tok9", 0)>>)}

InitRest ==
    /\ session = NoSession
    /\ now = 0
    /\ pc = [p \in Procs |-> "idle"]
    /\ loc = [p \in Procs |-> LocIdle]
    /\ used = {}
    /\ exchanges = [t \in StateTokens |-> 0]
    /\ last = NoLast
    /\ ops = 0

\* the browser flow: the service account is not configured
Init ==
    /\ tags \in [OAuthClient : InitOAuth, ServiceAccount : {NullDS},
                 UseSA : {FALSE}]
    /\ InitRest

\* no other process is inside a handler or an operation
Alone(p) == \A q \in Procs \ {p} : pc[q] = "idle"

\* the browser flow, sequential execution: a request is served to its end
\* before the next one is
Next ==
    \/ \E p \in SeqProcs : Alone(p) /\ CallbackBegin(p, Requests)
    \/ \E p \in SeqProcs : Alone(p) /\ CallbackDelete(p)
    \/ \E p \in SeqProcs : Alone(p) /\ CallbackExchange(p)
    \/ \E p \in SeqProcs : Alone(p) /\ OAuthDefaultClock(p)
    \/ \E p \in SeqProcs : Alone(p) /\ CallbackDefault(p)
    \/ \E p \in SeqProcs : Alone(p) /\ CallbackPost(p, Responses)
    \/ \E p \in SeqProcs : Alone(p) /\ CallbackClock(p)
    \/ \E p \in SeqProcs : Alone(p) /\ CallbackWrite(p)
    \/ \E p \in SeqProcs : Alone(p) /\ StartRequest(p)
    \/ \E p \in SeqProcs : Alone(p) /\ StartRead(p)
    \/ \E p \in SeqProcs : Alone(p) /\ StartDefault(p)
    \/ \E p \in SeqProcs : Alone(p) /\ Finish(p)
    \/ Tick

Spec == Init /\ [][Next]_vars

\* the browser flow, concurrent requests of one session: the steps of the
\* processes interleave freely
NextConc ==
    \/ \E p \in Procs : CallbackBegin(p, PlainRequests)
    \/ \E p \in Procs : CallbackDelete(p)
    \/ \E p \in Procs : CallbackExchange(p)
    \/ \E p \in Procs : OAuthDefaultClock(p)
    \/ \E p \in Procs : CallbackDefault(p)
    \/ \E p \in Procs : CallbackPost(p, PlainResponses)
    \/ \E p \in Procs : CallbackClock(p)
    \/ \E p \in Procs : CallbackWrite(p)
    \/ \E p \in Procs : StartRequest(p)
    \/ \E p \in Procs : StartRead(p)
    \/ \E p \in Procs : StartDefault(p)
    \/ \E p \in Procs : Finish(p)
    \/ Tick

\* the client is configured and holds the tokens of an earlier consent, or
\* its dataset is absent
InitConc ==
    /\ tags \in [OAuthClient : {DS(<<OAuthRow("cid", "sec", "r0", "tok0", TickStep)>>),
                                 NullDS},
                  ServiceAccount : {NullDS}, UseSA : {FALSE}]
    /\ InitRest

SpecConc == InitConc /\ [][NextConc]_vars

\* the token operations next to the browser flow, sequential execution
InitTokens ==
    /\ tags \in [OAuthClient : InitOAuth, ServiceAccount : {NullDS},
                 UseSA : {FALSE}]
              \cup [OAuthClient : {NullDS}, ServiceAccount : InitSA,
                    UseSA : {FALSE}]
    /\ InitRest

NextTokens ==
    \/ \E p \in SeqProcs : Alone(p) /\ CallbackBegin(p, PlainRequests)
    \/ \E p \in SeqProcs : Alone(p) /\ CallbackDelete(p)
    \/ \E p \in SeqProcs : Alone(p) /\ CallbackExchange(p)
    \/ \E p \in SeqProcs : Alone(p) /\ OAuthDefaultClock(p)
    \/ \E p \in SeqProcs : Alone(p) /\ CallbackDefault(p)
    \/ \E p \in SeqProcs : Alone(p) /\ CallbackPost(p, Responses)
    \/ \E p \in SeqProcs : Alone(p) /\ CallbackClock(p)
    \/ \E p \in SeqProcs : Alone(p) /\ CallbackWrite(p)
    \/ \E p \in SeqProcs : Alone(p) /\ StartRequest(p)
    \/ \E p \in SeqProcs : Alone(p) /\ StartRead(p)
    \/ \E p \in SeqProcs : Alone(p) /\ StartDefault(p)
    \/ \E p \in SeqProcs : Alone(p) /\ RefreshBegin(p)
    \/ \E p \in SeqProcs : Alone(p) /\ RefreshDefault(p)
    \/ \E p \in SeqProcs : Alone(p) /\ RefreshPost(p, Responses)
    \/ \E p \in SeqProcs : Alone(p) /\ RefreshClock(p)
    \/ \E p \in SeqProcs : Alone(p) /\ RefreshWrite(p)
    \/ \E p \in SeqProcs : Alone(p) /\ SARequestBegin(p)
    \/ \E p \in SeqProcs : Alone(p) /\ SADefaultClock(p)
    \/ \E p \in SeqProcs : Alone(p) /\ SARequestDefault(p)
    \/ \E p \in SeqProcs : Alone(p) /\ SAJwtClock(p)
    \/ \E p \in SeqProcs : Alone(p) /\ SARequestPost(p, Responses)
    \/ \E p \in SeqProcs : Alone(p) /\ SARequestClock(p)
    \/ \E p \in SeqProcs : Alone(p) /\ SARequestWrite(p)
    \/ \E p \in SeqProcs : Alone(p) /\ OAuthGetBegin(p)
    \/ \E p \in SeqProcs : Alone(p) /\ OAuthGetDefault(p)
    \/ \E p \in SeqProcs : Alone(p) /\ OAuthGetClock(p)
    \/ \E p \in SeqProcs : Alone(p) /\ OAuthGetRefresh(p)
    \/ \E p \in SeqProcs : Alone(p) /\ Finish(p)
    \/ Tick

SpecTokens == InitTokens /\ [][NextTokens]_vars

\* the records the provider may find: absent, holding a token that is fresh
\* until the clock's first step, holding one without a date, holding none
InitSelOAuth ==
    {NullDS,
     DS(<<OAuthRow("cid", "sec", "r0", "tok0", TickStep)>>),
     DS(<<OAuthRow("cid", "sec", "r0", "tok0", NoDate)>>),
     DS(<<OAuthRow("cid", "sec", "", "", 0)>>)}

InitSelSA ==
    {NullDS,
     DS(<<SARow("sa@x", "pem", "tok5", TickStep)>>),
     DS(<<SARow("sa@x", "pem", "tok5", NoDate)>>),
     DS(<<SARow("sa@x", "bad", "", 0)>>)}

\* the flag starts false: the OAuth manager is the selected one
InitSel ==
    /\ tags \in [OAuthClient : InitSelOAuth, ServiceAccount : InitSelSA,
                 UseSA : {FALSE}]
    /\ InitRest

\* scripts ask the provider or a manager for a token, build authorize URLs
\* and switch the flag; sequential execution
NextSel ==
    \/ \E p \in SeqProcs : Alone(p) /\ ProviderBegin(p)
    \/ \E p \in SeqProcs : Alone(p) /\ ProviderOAuth(p)
    \/ \E p \in SeqProcs : Alone(p) /\ ProviderSA(p)
    \/ \E p \in SeqProcs : Alone(p) /\ OAuthGetBegin(p)
    \/ \E p \in SeqProcs : Alone(p) /\ OAuthDefaultClock(p)
    \/ \E p \in SeqProcs : Alone(p) /\ OAuthGetDefault(p)
    \/ \E p \in SeqProcs : Alone(p) /\ OAuthGetClock(p)
    \/ \E p \in SeqProcs : Alone(p) /\ OAuthGetRefresh(p)
    \/ \E p \in SeqProcs : Alone(p) /\ RefreshPost(p, Responses)
    \/ \E p \in SeqProcs : Alone(p) /\ RefreshClock(p)
    \/ \E p \in SeqProcs : Alone(p) /\ RefreshWrite(p)
    \/ \E p \in SeqProcs : Alone(p) /\ SAGetBegin(p)
    \/ \E p \in SeqProcs : Alone(p) /\ SADefaultClock(p)
    \/ \E p \in SeqProcs : Alone(p) /\ SAGetDefault(p)
    \/ \E p \in SeqProcs : Alone(p) /\ SAGetClock(p)
    \/ \E p \in SeqProcs : Alone(p) /\ SAGetRequest(p)
    \/ \E p \in SeqProcs : Alone(p) /\ SAJwtClock(p)
    \/ \E p \in SeqProcs : Alone(p) /\ SARequestPost(p, Responses)
    \/ \E p \in SeqProcs : Alone(p) /\ SARequestClock(p)
    \/ \E p \in SeqProcs : Alone(p) /\ SARequestWrite(p)
    \/ \E p \in SeqProcs : Alone(p) /\ BuildAuthorizeUrl(p)
    \/ \E p \in SeqProcs : Alone(p) /\ BuildUrlDefault(p)
    \/ \E p \in SeqProcs : Alone(p) /\ Finish(p)
    \/ SetUseSA
    \/ Tick

SpecSel == InitSel /\ [][NextSel]_vars

\* the record holds the tokens of an earlier consent, the access token
\* expires when the clock starts, and a Start of the session has stored a
\* state and sent the browser to the consent screen
InitRace ==
    /\ tags \in [OAuthClient : {DS(<<OAuthRow("cid", "sec", "r0", "tok0", 0)>>),
                                 NullDS},
                  ServiceAccount : {NullDS}, UseSA : {FALSE}]
    /\ session = [present |-> TRUE, value |-> <<"a", "b">>]
    /\ used = {<<"a", "b">>}
    /\ now = 0
    /\ pc = [p \in Procs |-> "idle"]
    /\ loc = [p \in Procs |-> LocIdle]
    /\ exchanges = [t \in StateTokens |-> 0]
    /\ last = NoLast
    /\ ops = 0

\* the token operations of the OAuth manager next to the browser flow, the
\* steps of the processes interleaving freely
NextRace ==
    \/ \E p \in Procs : CallbackBegin(p, PlainRequests)
    \/ \E p \in Procs : CallbackDelete(p)
    \/ \E p \in Procs : CallbackExchange(p)
    \/ \E p \in Procs : OAuthDefaultClock(p)
    \/ \E p \in Procs : CallbackDefault(p)
    \/ \E p \in Procs : CallbackPost(p, PlainResponses)
    \/ \E p \in Procs : CallbackClock(p)
    \/ \E p \in Procs : CallbackWrite(p)
    \/ \E p \in Procs : OAuthGetBegin(p)
    \/ \E p \in Procs : OAuthGetDefault(p)
    \/ \E p \in Procs : OAuthGetClock(p)
    \/ \E p \in Procs : OAuthGetRefresh(p)
    \/ \E p \in Procs : RefreshPost(p, PlainResponses)
    \/ \E p \in Procs : RefreshClock(p)
    \/ \E p \in Procs : RefreshWrite(p)
    \/ \E p \in Procs : Finish(p)
    \/ Tick

SpecRace == InitRace /\ [][NextRace]_vars

\* the callbacks of one session whose state is stored, against a configured
\* client and against one without its secret
InitErr ==
    /\ tags \in [OAuthClient : {DS(<<OAuthRow("cid", "sec", "r0", "tok0", 0)>>),
                                 DS(<<OAuthRow("cid", "", "", "", 0)>>),
                                 NullDS},
                  ServiceAccount : {NullDS}, UseSA : {FALSE}]
    /\ session = [present |-> TRUE, value |-> <<"a", "b">>]
    /\ used = {<<"a", "b">>}
    /\ now = 0
    /\ pc = [p \in Procs |-> "idle"]
    /\ loc = [p \in Procs |-> LocIdle]
    /\ exchanges = [t \in StateTokens |-> 0]
    /\ last = NoLast
    /\ ops = 0

\* concurrent callbacks, the token endpoint answering in every way
NextErr ==
    \/ \E p \in Procs : CallbackBegin(p, PlainRequests)
    \/ \E p \in Procs : CallbackDelete(p)
    \/ \E p \in Procs : CallbackExchange(p)
    \/ \E p \in Procs : OAuthDefaultClock(p)
    \/ \E p \in Procs : CallbackDefault(p)
    \/ \E p \in Procs : CallbackPost(p, Responses)
    \/ \E p \in Procs : CallbackClock(p)
    \/ \E p \in Procs : CallbackWrite(p)
    \/ \E p \in Procs : Finish(p)
    \/ Tick

SpecErr == InitErr /\ [][NextErr]_vars

\* the records the Sheets client may find: tokens that expire when the clock
\* starts, and an OAuth record without tokens
InitSheets ==
    /\ tags \in [OAuthClient : {DS(<<OAuthRow("cid", "sec", "r0", "tok0", 0)>>),
                               DS(<<OAuthRow("cid", "sec", "", "", 0)>>),
                               NullDS},
                 ServiceAccount : {DS(<<SARow("sa@x", "pem", "tok5", 0)>>),
                                   NullDS},
                 UseSA : BOOLEAN]
    /\ InitRest

\* scripts call the operations of the Sheets client, one after the other
NextSheets ==
    \/ \E p \in SeqProcs : Alone(p) /\ SheetsBegin(p)
    \/ \E p \in SeqProcs : Alone(p) /\ SheetsToken(p)
    \/ \E p \in SeqProcs : Alone(p) /\ ProviderOAuth(p)
    \/ \E p \in SeqProcs : Alone(p) /\ OAuthDefaultClock(p)
    \/ \E p \in SeqProcs : Alone(p) /\ OAuthGetDefault(p)
    \/ \E p \in SeqProcs : Alone(p) /\ OAuthGetClock(p)
    \/ \E p \in SeqProcs : Alone(p) /\ ProviderSA(p)
    \/ \E p \in SeqProcs : Alone(p) /\ SADefaultClock(p)
    \/ \E p \in SeqProcs : Alone(p) /\ SAGetDefault(p)
    \/ \E p \in SeqProcs : Alone(p) /\ SAGetClock(p)
    \/ \E p \in SeqProcs : Alone(p) /\ OAuthGetRefresh(p)
    \/ \E p \in SeqProcs : Alone(p) /\ RefreshPost(p, PlainResponses)
    \/ \E p \in SeqProcs : Alone(p) /\ RefreshClock(p)
    \/ \E p \in SeqProcs : Alone(p) /\ RefreshWrite(p)
    \/ \E p \in SeqProcs : Alone(p) /\ SAGetRequest(p)
    \/ \E p \in SeqProcs : Alone(p) /\ SAJwtClock(p)
    \/ \E p \in SeqProcs : Alone(p) /\ SARequestPost(p, PlainResponses)
    \/ \E p \in SeqProcs : Alone(p) /\ SARequestClock(p)
    \/ \E p \in SeqProcs : Alone(p) /\ SARequestWrite(p)
    \/ \E p \in SeqProcs : Alone(p) /\ SheetsRequest(p)
    \/ \E p \in SeqProcs : Alone(p) /\ Finish(p)
    \/ Tick

SpecSheets == InitSheets /\ [][NextSheets]_vars

\* the clocks at which the first assertion may be built: on a whole second
\* and one millisecond before the next one
StartClocks == {0, 1999}

\* the service account is configured; its token, when it has one, expires
\* when the clock starts
InitJwt ==
    /\ tags \in [OAuthClient : {NullDS},
                 ServiceAccount : {DS(<<SARow("sa@x", "pem", "", 0)>>),
                                   DS(<<SARow("sa@x", "pem", "tok5", 0)>>),
                                   DS(<<SARow("sa2@x", "bad", "", 0)>>),
                                   NullDS},
                 UseSA : {TRUE}]
    /\ session = NoSession
    /\ now \in StartClocks
    /\ pc = [p \in Procs |-> "idle"]
    /\ loc = [p \in Procs |-> LocIdle]
    /\ used = {}
    /\ exchanges = [t \in StateTokens |-> 0]
    /\ last = NoLast
    /\ ops = 0

\* the token requests of the service-account manager, one after the other
NextJwt ==
    \/ \E p \in SeqProcs : Alone(p) /\ SARequestBegin(p)
    \/ \E p \in SeqProcs : Alone(p) /\ SADefaultClock(p)
    \/ \E p \in SeqProcs : Alone(p) /\ SARequestDefault(p)
    \/ \E p \in SeqProcs : Alone(p) /\ SAGetBegin(p)
    \/ \E p \in SeqProcs : Alone(p) /\ SAGetDefault(p)
    \/ \E p \in SeqProcs : Alone(p) /\ SAGetClock(p)
    \/ \E p \in SeqProcs : Alone(p) /\ SAGetRequest(p)
    \/ \E p \in SeqProcs : Alone(p) /\ SAJwtClock(p)
    \/ \E p \in SeqProcs : Alone(p) /\ SARequestPost(p, Responses)
    \/ \E p \in SeqProcs : Alone(p) /\ SARequestClock(p)
    \/ \E p \in SeqProcs : Alone(p) /\ SARequestWrite(p)
    \/ \E p \in SeqProcs : Alone(p) /\ Finish(p)
    \/ Tick

SpecJwt == InitJwt /\ [][NextJwt]_vars

----------------------------------------------------------------------------
(* GoogleServiceAccountClient._load_private_key on the text of a PEM *)

\* A text is a sequence of characters.  The marker a BEGIN or END line
\* starts with, and the rest of such a line, are single elements.
Backslash == "\\"
LF == "\n"
CR == "\r"
BeginMark == "-----BEGIN"
EndMark == "-----END"
MarkRest == " PRIVATE KEY-----"
Whitespace == {" ", "\t", LF, CR}
Base64Chars == {"Q", "n", "r"}

\* the separators between the lines of a PEM: a newline, a carriage return
\* and a newline, and the two characters backslash and n
Newline == <<LF>>
CrLf == <<CR, LF>>
EscapedNewline == <<Backslash, "n">>
Separators == {Newline, CrLf, EscapedNewline}

\* the lines of a base64 body
MaxBodyLines == 2
BodyLines == {<<"Q">>, <<"Q", "n">>, <<"r", "Q">>}
PemBodies == UNION {[1..k -> BodyLines] : k \in 1..MaxBodyLines}

RECURSIVE Concat(_)
\* "".join(lines)
Concat(lines) ==
    IF lines = <<>> THEN <<>> ELSE Head(lines) \o Concat(Tail(lines))

RECURSIVE JoinLines(_, _)
\* every line followed by the separator
JoinLines(lines, sep) ==
    IF lines = <<>> THEN <<>>
    ELSE Head(lines) \o sep \o JoinLines(Tail(lines), sep)

\* the text of a PEM: header line, body lines, footer line, each ended by
\* the separator except, when trail is false, the last
Pem(sep, body, trail) ==
    JoinLines(<<<<BeginMark, MarkRest>>>> \o body, sep)
    \o <<EndMark, MarkRest>> \o (IF trail THEN sep ELSE <<>>)

\* text[i..] starts with pat
StartsAt(text, pat) ==
    Len(pat) <= Len(text) /\ SubSeq(text, 1, Len(pat)) = pat

RECURSIVE Replace(_, _, _)
\* text.replace(old, new)
Replace(text, old, new) ==
    IF text = <<>> THEN <<>>
    ELSE IF StartsAt(text, old)
    THEN new \o Replace(SubSeq(text, Len(old) + 1, Len(text)), old, new)
    ELSE <<Head(text)>> \o Replace(Tail(text), old, new)

RECURSIVE SplitFrom(_, _, _)
\* text.split(sep), cur being the piece read so far
SplitFrom(text, sep, cur) ==
    IF text = <<>> THEN <<cur>>
    ELSE IF StartsAt(text, sep)
    THEN <<cur>> \o SplitFrom(SubSeq(text, Len(sep) + 1, Len(text)), sep, <<>>)
    ELSE SplitFrom(Tail(text), sep, Append(cur, Head(text)))

Split(text, sep) == SplitFrom(text, sep, <<>>)

RECURSIVE LStrip(_)
LStrip(text) ==
    IF text # <<>> /\ Head(text) \in Whitespace THEN LStrip(Tail(text))
    ELSE text

RECURSIVE RStrip(_)
RStrip(text) ==
    IF text # <<>> /\ text[Len(text)] \in Whitespace
    THEN RStrip(SubSeq(text, 1, Len(text) - 1))
    ELSE text

\* line.strip()
Strip(text) == RStrip(LStrip(text))

\* line.startswith("-----BEGIN") or line.startswith("-----END")
IsMarkLine(line) == line # <<>> /\ line[1] \in {BeginMark, EndMark}

\* lines 383-384: the lines the loop skips
Skipped(line) == line = <<>> \/ IsMarkLine(line)

\* line 380: private_key_pem.replace("\\r", "").split("\\n"); both string
\* literals hold a backslash and a letter
PemLines(pem) == Split(Replace(pem, <<Backslash, "r">>, <<>>), EscapedNewline)

\* lines 381-387: b64_str, the text handed to the decoder
B64Str(pem) ==
    LET lines == PemLines(pem)
        stripped == [i \in 1..Len(lines) |-> Strip(lines[i])]
    IN  Concat(SelectSeq(stripped, LAMBDA line : ~Skipped(line)))

\* java.util.Base64.getDecoder().decode, line 390: a character outside the
\* base64 alphabet and a last unit of a single character are rejected; a
\* last unit of two or three characters may lack its padding
DecodeFails(b64) ==
    \/ \E i \in 1..Len(b64) : b64[i] \notin Base64Chars
    \/ Len(b64) % 4 = 1

\* lines 378-379 and 389-394: the exception of _load_private_key.  The key
\* factory accepts the DER encoding of a PKCS#8 RSA key only; the bodies of
\* the texts here decode to at most three bytes, which is none
LoadError(pem) ==
    IF pem = <<>> THEN "ValueError"
    ELSE IF DecodeFails(B64Str(pem)) THEN "IllegalArgumentException"
    ELSE "InvalidKeySpecException"

\* a caller loads the key of a PEM text
LoadKey(p) ==
    /\ pc[p] = "idle"
    /\ \E sep \in Separators, body \in PemBodies, trail \in BOOLEAN :
         LET pem == Pem(sep, body, trail)
         IN  loc' = [loc EXCEPT ![p] =
                       [Enter("load_key", NoReq) EXCEPT
                           !.key = [sep |-> sep, body |-> body, pem |-> pem,
                                    b64 |-> B64Str(pem),
                                    error |-> LoadError(pem)],
                           !.raised = LoadError(pem)]]
    /\ pc' = [pc EXCEPT ![p] = "done"]
    /\ UNCHANGED <<session, tags, now, used, exchanges, last, ops>>

\* _load_private_key applied to the PEM texts
NextPem ==
    \/ \E p \in SeqProcs : Alone(p) /\ LoadKey(p)
    \/ \E p \in SeqProcs : Alone(p) /\ Finish(p)

SpecPem == InitJwt /\ [][NextPem]_vars

\* the column-letter conversion applied to every column number it supports
NextLetters ==
    \/ \E p \in SeqProcs : Alone(p) /\ ColumnLetters(p)
    \/ \E p \in SeqProcs : Alone(p) /\ Finish(p)

SpecLetters == InitSheets /\ [][NextLetters]_vars

----------------------------------------------------------------------------
(* Properties of the callback endpoint *)

\* process p has run a callback to its end and has not returned yet
CallbackDone(p) == pc[p] = "done" /\ loc[p].kind = "callback"

\* the request carries the parameter, and its value is not empty
NonEmpty(x) == x.shape # "none" /\ x.v # <<>>

\* the request's state is absent or empty, the session held no state when
\* the callback began, or the two differ
BadState(l) ==
    \/ ~NonEmpty(l.req.state)
    \/ ~l.session0.present
    \/ l.req.state.v # l.session0.value

\* C1: a callback without an error parameter and with a non-empty code whose
\* state is absent or empty, or whose session holds no state, or whose state
\* differs from the session's, answers 400 and never invokes the exchange
C1_BadStateIs400 ==
    \A p \in Procs :
        (/\ CallbackDone(p)
         /\ loc[p].req.error = PyNone
         /\ NonEmpty(loc[p].req.code)
         /\ BadState(loc[p]))
        => loc[p].status = 400 /\ loc[p].exch = 0

\* C2: after a callback that reached the state validation, whether it passed
\* or failed, the session holds no google_oauth_state entry
C2_StateDeletedOnUse ==
    \A p \in Procs :
        CallbackDone(p) /\ loc[p].reached => ~session.present

\* C3: the callback that immediately follows one that passed the state
\* validation, with the same parameters and no Start in between, fails the
\* validation with status 400 and does not invoke the exchange
C3_ReplayRejected ==
    \A p \in Procs :
        CallbackDone(p) /\ last.valid /\ last.req = loc[p].req
        => /\ loc[p].status = 400
           /\ loc[p].page = "invalid_state"
           /\ loc[p].exch = 0

C3_Witness ==
    \E p \in Procs :
        /\ CallbackDone(p) /\ last.valid /\ last.req = loc[p].req
        /\ IsList(loc[p].req.state)
        /\ loc[p].status = 400

\* C4: in every interleaving of the callbacks of one session, each state a
\* Start generated leads to at most one invocation of the exchange
C4_OneExchangePerState == \A st \in StateTokens : exchanges[st] <= 1

\* C5: the session state is consumed before the exchange starts and stays
\* consumed when it fails: during the exchange, and after a callback that
\* passed the validation and ended with status 500, the session holds no
\* google_oauth_state entry
C5_ConsumedBeforeExchange ==
    \A p \in Procs :
        /\ pc[p] \in {"cb_defnow", "cb_default", "cb_post", "cb_now", "cb_write"}
              => ~session.present
        /\ CallbackDone(p) /\ loc[p].passed /\ loc[p].status = 500
           => ~session.present

C5_Witness ==
    \E p \in Procs :
        /\ CallbackDone(p) /\ loc[p].passed /\ loc[p].status = 500
        /\ loc[p].posts = 1
        /\ ~session.present

\* C6: no exception escapes the callback: it always ends by returning one
\* page with a status of 200, 400 or 500
C6_NoExceptionEscapes ==
    \A p \in Procs :
        CallbackDone(p)
        => loc[p].raised = "none" /\ loc[p].status \in {200, 400, 500}

\* the request with every one-element list replaced by its element
Flatten(req) ==
    [k \in DOMAIN req |-> IF IsList(req[k]) THEN Scalar(req[k].v) ELSE req[k]]

\* C7: the outcome of a callback is the same whether code, error and state
\* arrive as a scalar v or as the list [v]: the handler leaves its checks the
\* same way and hands the same code to the exchange
C7_ShapeIndependent ==
    \A p \in Procs :
        CallbackDone(p)
        => /\ Branch(loc[p].req, loc[p].session0)
              = Branch(Flatten(loc[p].req), loc[p].session0)
           /\ NormalizeCode(loc[p].req.code)
              = NormalizeCode(Flatten(loc[p].req).code)

\* the token endpoint answered the exchange of process p with status 200, an
\* access_token, a refresh_token and expires_in = 3600
FullGrant(l) ==
    /\ l.posts = 1
    /\ l.resp.kind = "http" /\ l.resp.status = 200
    /\ DOMAIN l.resp.body = {"access_token", "refresh_token", "expires_in"}
    /\ l.resp.body.refresh_token # ""
    /\ l.resp.body.expires_in = 3600

\* C8: after a Start, a callback of the same session with the matching state
\* and a non-empty code whose exchange is answered by a full grant returns
\* 200 and leaves the record with the granted access_token and refresh_token
\* and token_expiry = now + 3540 s
C8_EndToEndSuccess ==
    \A p \in Procs :
        (/\ CallbackDone(p)
         /\ loc[p].session0.present
         /\ loc[p].req.state.v = loc[p].session0.value
         /\ NonEmpty(loc[p].req.code)
         /\ FullGrant(loc[p]))
        => /\ loc[p].status = 200
           /\ Info(tags.OAuthClient).access_token = loc[p].resp.body.access_token
           /\ Info(tags.OAuthClient).refresh_token = loc[p].resp.body.refresh_token
           /\ Info(tags.OAuthClient).token_expiry = loc[p].t + 3540 * 1000

C8_Witness ==
    \E p \in Procs :
        /\ CallbackDone(p) /\ FullGrant(loc[p])
        /\ loc[p].req.state.v = loc[p].session0.value
        /\ loc[p].resp.body.access_token = "tok1"
        /\ loc[p].status = 200
        /\ loc[p].t > 0

\* C9: a callback whose error parameter is present answers 400 and changes
\* neither the tag store nor the session, whatever code and state come along
C9_ErrorIsInert ==
    \A p \in Procs :
        CallbackDone(p) /\ NonEmpty(loc[p].req.error)
        => /\ loc[p].status = 400
           /\ tags = loc[p].tags0
           /\ session = loc[p].session0

----------------------------------------------------------------------------
(* Properties of the token operations *)

\* the call of the token endpoint timed out or was answered by a non-2xx status
EndpointFailed(l) ==
    /\ l.posts = 1
    /\ \/ l.resp.kind = "timeout"
       \/ l.resp.kind = "http" /\ l.resp.status \notin 200..299

\* C10: when the token endpoint times out or answers a non-2xx status, the
\* exchange, the refresh and the service-account request raise and leave the
\* tag store as it was before the call; the callback then answers 500
C10_NoPartialState ==
    \A p \in Procs :
        pc[p] = "done" /\ EndpointFailed(loc[p])
        => /\ loc[p].opErr \in {"Timeout", "TokenError"}
           /\ tags = loc[p].tags0
           /\ loc[p].kind = "callback"
              => loc[p].status = 500 /\ loc[p].raised = "none"
           /\ loc[p].kind \in {"refresh", "sa", "oauth_get"}
              => loc[p].raised = loc[p].opErr

C10_Witness ==
    \E p \in Procs :
        /\ pc[p] = "done" /\ EndpointFailed(loc[p])
        /\ loc[p].kind = "callback"
        /\ loc[p].resp.status = 401
        /\ loc[p].status = 500
        /\ ops = MaxOps

----------------------------------------------------------------------------
(* Properties of the token managers *)

\* process p has run get_valid_access_token of a manager, directly or through
\* the provider, to its end and has not returned yet
GetDone(p) == pc[p] = "done" /\ loc[p].mgr # "none"

\* the record of the manager that served p, as the tag held it at the read
\* of get_valid_access_token and as it holds it now
Stored0(l) ==
    IF l.mgr = "sa" THEN l.tags0.ServiceAccount ELSE l.tags0.OAuthClient
StoredNow(l) ==
    IF l.mgr = "sa" THEN tags.ServiceAccount ELSE tags.OAuthClient

\* the stored token is non-empty and the clock is before its expiry
Fresh(l) ==
    /\ ~NeedsDefault(Stored0(l))
    /\ Info(Stored0(l)).access_token # ""
    /\ Info(Stored0(l)).token_expiry # NoDate
    /\ l.t0 < Info(Stored0(l)).token_expiry

\* C11: for both managers, get_valid_access_token called while the stored
\* access token is non-empty and the clock is before token_expiry returns
\* the token the record holds, sends no request to the token endpoint and
\* leaves the record as it was.
C11_CachedPath ==
    \A p \in Procs :
        GetDone(p) /\ Fresh(loc[p]) =>
            /\ loc[p].raised = "none"
            /\ loc[p].result = Info(StoredNow(loc[p])).access_token
            /\ loc[p].posts = 0
            /\ StoredNow(loc[p]) = Stored0(loc[p])

C11_Witness ==
    \E p \in Procs :
        /\ GetDone(p) /\ Fresh(loc[p])
        /\ loc[p].mgr = "sa"
        /\ loc[p].result = "tok5"

\* the freshness gate as the specification words it: the stored token is
\* empty, its expiry is unset, or the expiry is at or before the clock
StaleAtOrBefore(l) ==
    /\ ~NeedsDefault(Stored0(l))
    /\ \/ Info(Stored0(l)).access_token = ""
       \/ Info(Stored0(l)).token_expiry = NoDate
       \/ Info(Stored0(l)).token_expiry <= l.t0

\* C12: get_valid_access_token called while the stored token is empty, its
\* expiry is unset or token_expiry <= now (equality included) sends exactly
\* one refresh / grant request, and when it returns it returns the token
\* of that grant.
C12_MissGrantsOnce ==
    \A p \in Procs :
        GetDone(p) /\ StaleAtOrBefore(loc[p]) /\ loc[p].raised = "none" =>
            /\ loc[p].posts = 1
            /\ loc[p].result = JsonGet(loc[p].resp.body, "access_token", "")

\* the code took the answer of the token endpoint for a grant: the request
\* was sent and the operation went on to its write-back and returned
Accepted(l) == l.posts = 1 /\ l.opErr = "none" /\ l.raised = "none"

\* the record the operation of l writes its grant to
GrantRecord(l) ==
    IF l.kind \in {"sa", "sa_get"} \/ l.mgr = "sa"
    THEN tags.ServiceAccount ELSE tags.OAuthClient

\* C13: after every grant the code accepts (code exchange, refresh grant,
\* service-account grant) whose response declares expires_in, the stored
\* token_expiry is issuance + expires_in - 60 s exactly and lies after the
\* time of issuance and not after issuance + expires_in.
C13_ExpiryInvariant ==
    \A p \in Procs :
        (/\ pc[p] = "done"
         /\ Accepted(loc[p])
         /\ "expires_in" \in DOMAIN loc[p].resp.body)
        => LET e == loc[p].resp.body.expires_in
               x == Info(GrantRecord(loc[p])).token_expiry
           IN  /\ x = loc[p].t + (e - 60) * 1000
               /\ loc[p].t < x
               /\ x <= loc[p].t + e * 1000

\* process p has run a refresh grant, called directly or by
\* get_valid_access_token, that the code accepted
RefreshAccepted(p) ==
    /\ pc[p] = "done"
    /\ loc[p].kind \in {"refresh", "oauth_get"}
    /\ Accepted(loc[p])

\* C14: when refresh_access_token succeeds, a response without a
\* refresh_token field leaves the stored refresh_token as it was, and a
\* response with a refresh_token makes it the stored refresh_token.
C14_RefreshTokenOnRefresh ==
    \A p \in Procs :
        RefreshAccepted(p) =>
            LET body == loc[p].resp.body
                rt == Info(tags.OAuthClient).refresh_token
            IN  /\ "refresh_token" \notin DOMAIN body
                   => rt = Info(loc[p].tags0.OAuthClient).refresh_token
                /\ JsonGet(body, "refresh_token", "") # ""
                   => rt = body.refresh_token

\* process p has run a callback whose exchange succeeded
ExchangeSucceeded(p) ==
    CallbackDone(p) /\ loc[p].status = 200 /\ loc[p].posts = 1

\* C15: on a successful exchange_code_for_tokens the stored access_token and
\* token_expiry are those of the grant; the stored refresh_token is the one
\* of the response when the response has a non-empty one, and otherwise it
\* is the one stored before and the operation returns an empty refresh_token.
C15_ExchangeWrites ==
    \A p \in Procs :
        ExchangeSucceeded(p) =>
            LET body == loc[p].resp.body
                row == Info(tags.OAuthClient)
                rt == JsonGet(body, "refresh_token", "")
            IN  /\ row.access_token = JsonGet(body, "access_token", "")
                /\ row.token_expiry =
                      loc[p].t + (JsonGet(body, "expires_in", 0) - 60) * 1000
                /\ loc[p].result = JsonGet(body, "access_token", "")
                /\ rt # "" => row.refresh_token = rt /\ loc[p].resultRt = rt
                /\ rt = "" =>
                      /\ row.refresh_token =
                            Info(loc[p].tags0.OAuthClient).refresh_token
                      /\ loc[p].resultRt = ""

C15_Witness ==
    \E p \in Procs :
        /\ ExchangeSucceeded(p)
        /\ "refresh_token" \notin DOMAIN loc[p].resp.body
        /\ Info(loc[p].tags0.OAuthClient).access_token = "tok0"
        /\ Info(tags.OAuthClient).access_token = "tok1"
        /\ Info(tags.OAuthClient).refresh_token = "r0"

\* process p has called the provider and the provider has handed the call on
Delegated(p) ==
    /\ loc[p].kind = "provider"
    /\ pc[p] \in {"pv_sa", "pv_oauth"}

\* C18: every call of the provider reads the UseSA flag and hands the call
\* to the service-account manager when the flag read at that call is true
\* and to the OAuth manager when it is false, whatever earlier calls read.
C18_SelectorReadsFlag ==
    \A p \in Procs :
        /\ Delegated(p) => (pc[p] = "pv_sa" <=> loc[p].tags0.UseSA)
        /\ loc[p].kind = "provider" /\ loc[p].mgr # "none"
           => (loc[p].mgr = "sa" <=> loc[p].tags0.UseSA)

\* a call handed to the service-account manager: the flag was switched to
\* true after the call before it had refreshed the token of the OAuth record
C18_Witness ==
    \E p \in Procs :
        /\ Delegated(p) /\ pc[p] = "pv_sa"
        /\ ops = MaxOps
        /\ ~NeedsDefault(tags.OAuthClient)
        /\ Info(tags.OAuthClient).access_token = "tok1"
        /\ ~NeedsDefault(tags.ServiceAccount)
        /\ Info(tags.ServiceAccount).access_token = "tok5"

\* the operation of l needs a credential the record did not hold when the
\* operation was called: the exchange a client_id and a client_secret, the
\* refresh (called directly or by get_valid_access_token on a miss) a
\* refresh_token
CredentialMissing(l) ==
    LET d == l.tags0.OAuthClient
    IN  \/ /\ l.kind = "callback" /\ l.exch = 1
           /\ NeedsDefault(d) \/ MissingClient(Info(d))
        \/ /\ l.kind = "refresh" \/ (l.kind = "oauth_get" /\ ~l.cached)
           /\ NeedsDefault(d) \/ Info(d).refresh_token = ""

\* C19: an exchange on a record without client_id or client_secret and a
\* refresh on a record without refresh_token fail with a configuration error
\* before any request is sent; an existing record is left as it was, and a
\* record created by the read holds no token.
C19_MissingCredential ==
    \A p \in Procs :
        pc[p] = "done" /\ CredentialMissing(loc[p]) =>
            /\ loc[p].opErr = "ValueError"
            /\ loc[p].posts = 0
            /\ loc[p].kind = "callback" => loc[p].status = 500
            /\ loc[p].kind # "callback" => loc[p].raised = "ValueError"
            /\ IF NeedsDefault(loc[p].tags0.OAuthClient)
               THEN /\ Info(tags.OAuthClient).access_token = ""
                    /\ Info(tags.OAuthClient).refresh_token = ""
               ELSE tags.OAuthClient = loc[p].tags0.OAuthClient

C19_Witness ==
    \E p \in Procs :
        /\ pc[p] = "done" /\ CredentialMissing(loc[p])
        /\ loc[p].kind = "oauth_get"
        /\ ~NeedsDefault(loc[p].tags0.OAuthClient)
        /\ Info(loc[p].tags0.OAuthClient).client_id = "cid"

\* process p has run build_authorize_url to its end and has not returned yet
BuildDone(p) == pc[p] = "done" /\ loc[p].kind = "build_url"

\* C20 as stated: build_authorize_url leaves the session and the tag store
\* as they were, for every record, scope and state, whether it returns a URL
\* or raises.
C20_NoSideEffects ==
    \A p \in Procs :
        BuildDone(p) =>
            /\ session = loc[p].session0
            /\ tags.OAuthClient = loc[p].tags0.OAuthClient
            /\ tags.ServiceAccount = loc[p].tags0.ServiceAccount

\* C20 amended: build_authorize_url leaves the session and the
\* service-account record as they were; an OAuth record that holds a row is
\* left as it was; an absent or empty OAuth record is replaced by a dataset
\* of one row with empty credentials and tokens, and the call then raises.
C20_SideEffectOnlyCreation ==
    \A p \in Procs :
        BuildDone(p) =>
            /\ session = loc[p].session0
            /\ tags.ServiceAccount = loc[p].tags0.ServiceAccount
            /\ IF NeedsDefault(loc[p].tags0.OAuthClient)
               THEN /\ loc[p].raised = "ValueError"
                    /\ Len(tags.OAuthClient.rows) = 1
                    /\ Info(tags.OAuthClient).client_id = ""
                    /\ Info(tags.OAuthClient).client_secret = ""
                    /\ Info(tags.OAuthClient).access_token = ""
                    /\ Info(tags.OAuthClient).refresh_token = ""
               ELSE tags.OAuthClient = loc[p].tags0.OAuthClient

\* the call found no record, created the default one and raised
C20_Witness ==
    \E p \in Procs :
        /\ BuildDone(p)
        /\ loc[p].tags0.OAuthClient = NullDS
        /\ loc[p].raised = "ValueError"
        /\ ~NeedsDefault(tags.OAuthClient)

\* both processes have run get_valid_access_token on an expired token, both
\* were granted a new one and neither has returned yet
BothRefreshed ==
    \A p \in Procs :
        /\ pc[p] = "done"
        /\ loc[p].kind = "oauth_get"
        /\ Accepted(loc[p])

\* the access_token and token_expiry the grant of p wrote
GrantPair(p) ==
    <<JsonGet(loc[p].resp.body, "access_token", ""),
      loc[p].t + (JsonGet(loc[p].resp.body, "expires_in", 0) - 60) * 1000>>

\* C16: when two concurrent calls of get_valid_access_token both find the
\* token expired, both are granted a token and both write; the stored
\* (access_token, token_expiry) is then the pair of one of the two grants.
C16_RaceLastWriteWins ==
    BothRefreshed =>
        <<Info(tags.OAuthClient).access_token,
          Info(tags.OAuthClient).token_expiry>> \in {GrantPair(p) : p \in Procs}

\* both calls read the expired token "tok0" and were granted different tokens
C16_Witness ==
    /\ BothRefreshed
    /\ \A p \in Procs : Info(loc[p].info).access_token = "tok0"
    /\ GrantPair(1) # GrantPair(2)
    /\ Info(tags.OAuthClient).access_token = loc[1].resp.body.access_token

\* the refresh_token the record holds
StoredRefreshToken ==
    IF NeedsDefault(tags.OAuthClient) THEN ""
    ELSE Info(tags.OAuthClient).refresh_token

\* C17: in every interleaving of the exchange and the refresh on one record
\* the stored refresh_token changes only in the write-back of an exchange
\* whose response carried a refresh_token, and it becomes that value; the
\* write-back of a refresh never changes it.
C17_RefreshTokenOnlyByExchange ==
    [][StoredRefreshToken' # StoredRefreshToken =>
         \E p \in Procs :
            /\ pc[p] = "cb_write" /\ pc'[p] = "done"
            /\ StoredRefreshToken' =
                  JsonGet(loc'[p].resp.body, "refresh_token", "")]_vars

\* process p has run get_valid_access_token on a record that was absent
\* (null or without rows) when the call read it
GetOnAbsent(p) == GetDone(p) /\ NeedsDefault(Stored0(loc[p]))

\* C21: for both managers, get_valid_access_token on an absent record
\* creates the record with one row of empty fields, sends no request and
\* fails with the configuration error of the missing credential (the
\* refresh_token of the OAuth record, the client_email of the
\* service-account record), as it does on an existing record with empty
\* fields.
C21_LazyCreation ==
    \A p \in Procs :
        GetOnAbsent(p) =>
            /\ Len(StoredNow(loc[p]).rows) = 1
            /\ Info(StoredNow(loc[p])).access_token = ""
            /\ loc[p].posts = 0
            /\ loc[p].raised = "ValueError"

----------------------------------------------------------------------------
(* Properties of the Start endpoint *)

\* process p has run a Start request that returns its page
StartReturns(p) ==
    pc[p] = "done" /\ loc[p].kind = "start" /\ loc[p].raised = "none"

\* C22: when a Start request returns its response, the state parameter of
\* the authorize URL in it is the value the session holds under
\* google_oauth_state, and this Start generated it: it is none of the states
\* generated in the session before.
C22_StartStateMatches ==
    [][\A p \in Procs :
          /\ (pc[p] = "idle" /\ loc'[p].kind = "start") =>
                /\ session'.present
                /\ loc'[p].args.state = Scalar(session'.value)
                /\ session'.value \notin used
                /\ session.present => session'.value # session.value
          /\ (pc[p] # "done" /\ StartReturns(p)') =>
                /\ session'.present
                /\ loc'[p].url = Scalar(session'.value)
                /\ loc'[p].url = loc'[p].args.state]_vars

\* a Start has returned in a session that held the state of an earlier Start
C22_Witness ==
    \E p \in Procs :
        /\ StartReturns(p)
        /\ loc[p].session0.present
        /\ session.present
        /\ loc[p].url = Scalar(session.value)
        /\ loc[p].session0.value # session.value

----------------------------------------------------------------------------
(* Properties of the Sheets client *)

\* process p has run an operation of the Sheets client to its end
SheetsDone(p) == pc[p] = "done" /\ loc[p].kind = "sheets"

HeaderExtended(p) ==
    /\ SheetsDone(p)
    /\ loc[p].sh.op = "append_dict_rows"
    /\ Len(loc[p].sh.columns) > Len(loc[p].sh.header)

\* C24: when append_dict_rows finds that the rows need columns the header
\* row does not have, its second request rewrites the header row (a PUT of
\* values.update), and unless that request fails it goes on to append the
\* rows.
C24_HeaderAutoExtension ==
    \A p \in Procs :
        HeaderExtended(p) =>
            /\ Len(loc[p].sh.reqs) >= 2
            /\ loc[p].sh.reqs[2].method = "PUT"
            /\ loc[p].raised = "none" =>
                  /\ Len(loc[p].sh.reqs) = 3
                  /\ loc[p].sh.reqs[3].call = "append_rows"

\* process p holds the letters of column loc[p].sh.n
LettersDone(p) == pc[p] = "done" /\ loc[p].kind = "letters"

\* C25: on 1..702 _to_column_letters gives names of one or two capital
\* letters, a smaller number gives a name that comes earlier in the
\* length-then-lexicographic order (so the function is injective, and onto
\* the 702 names A..ZZ), and f(1) = "A", f(26) = "Z", f(27) = "AA",
\* f(28) = "AB", f(702) = "ZZ".
C25_ColumnLettersBijection ==
    \A p \in Procs :
        LettersDone(p) =>
            LET n == loc[p].sh.n
                f == loc[p].sh.letters
            IN  /\ Len(f) \in {1, 2}
                /\ \A i \in 1..Len(f) : \E k \in 1..AlphabetSize : f[i] = Alphabet[k]
                /\ \A m \in 1..(n - 1) : KeyLess(ToColumnLetters(m), f)
                /\ n = 1 => f = <<"A">>
                /\ n = 26 => f = <<"Z">>
                /\ n = 27 => f = <<"A", "A">>
                /\ n = 28 => f = <<"A", "B">>
                /\ n = 702 => f = <<"Z", "Z">>

C25_Witness ==
    \E p \in Procs :
        /\ LettersDone(p)
        /\ loc[p].sh.n = MaxColumn
        /\ loc[p].sh.letters = <<"Z", "Z">>

----------------------------------------------------------------------------
(* Properties of the JWT assertion *)

\* the claim set of the assertion process p holds
ClaimSet(l) == l.jwt.claims_b64.b64

\* C26: every token request of the service-account manager builds its own
\* assertion in the step that leads to the request, with iss = the stored
\* client_email, scope = the configured scope, aud = the token URI, iat = the
\* clock of that step in whole seconds and exp - iat = 3600.
C26_JwtClaims ==
    [][\A p \in Procs :
          (pc[p] # "sa_post" /\ pc'[p] = "sa_post") =>
             LET c == ClaimSet(loc'[p])
             IN  /\ c.iss = Info(tags'.ServiceAccount).client_email
                 /\ c.scope = Scope
                 /\ c.aud = TokenUri
                 /\ c.iat * 1000 <= now /\ now < (c.iat + 1) * 1000
                 /\ c.exp - c.iat = 3600]_vars

\* the second token request, made after the clock has advanced: its
\* assertion carries the later time
C26_Witness ==
    \E p \in Procs :
        /\ pc[p] = "sa_post"
        /\ ops = MaxOps
        /\ now = TickStep + 1999
        /\ ClaimSet(loc[p]).iss = "sa@x"
        /\ ClaimSet(loc[p]).iat = 3541
        /\ ClaimSet(loc[p]).exp = 7141

\* C27: the third segment of the assertion is the RSA-SHA256 signature,
\* made with the stored private key, of header_b64 + "." + claims_b64, so
\* the assertion about to be posted verifies under the public key of that
\* private key.
C27_SignatureVerifies ==
    \A p \in Procs :
        pc[p] = "sa_post" =>
            Verifies(PublicKey(LoadPrivateKey(Info(loc[p].info).private_key)),
                     SigningInput(loc[p].jwt.header_b64, loc[p].jwt.claims_b64),
                     loc[p].jwt.signature_b64.b64)

C27_Witness ==
    \E p \in Procs :
        /\ pc[p] = "sa_post"
        /\ loc[p].jwt.header_b64 = Base64Url(JwtHeader)
        /\ loc[p].jwt.signature_b64.b64.key = LoadPrivateKey("pem")
        /\ loc[p].jwt.signature_b64.b64.alg = "SHA256withRSA"

----------------------------------------------------------------------------
(* Properties of the error page *)

\* the exchange step of the callback of p raised
ExchangeRaised(p) ==
    CallbackDone(p) /\ loc[p].exch = 1 /\ loc[p].opErr # "none"

\* C28: a callback whose exchange step raised answers with status 500 and
\* the fixed internal-error page, so two callbacks that differ only in the
\* exception raised return identical responses.
C28_SameErrorPage ==
    /\ \A p \in Procs :
          ExchangeRaised(p) =>
              loc[p].status = 500 /\ loc[p].page = "internal_error"
    /\ \A p, q \in Procs :
          ExchangeRaised(p) /\ ExchangeRaised(q) =>
              loc[p].status = loc[q].status /\ loc[p].page = loc[q].page

\* two callbacks of the same request, one ended by a provider rejection and
\* one by a transport failure
C28_Witness ==
    \E p, q \in Procs :
        /\ ExchangeRaised(p) /\ ExchangeRaised(q)
        /\ loc[p].req = loc[q].req
        /\ loc[p].opErr = "TokenError" /\ loc[q].opErr = "Timeout"
        /\ loc[p].page = loc[q].page

----------------------------------------------------------------------------
(* Properties of the write-back *)

\* process p has run an exchange, a refresh or a service-account grant that
\* the code accepted
GrantDone(p) == pc[p] = "done" /\ Accepted(loc[p])

\* the record of the grant of l as the tag held it when the operation began
GrantRecord0(l) ==
    IF l.kind \in {"sa", "sa_get"} \/ l.mgr = "sa"
    THEN l.tags0.ServiceAccount ELSE l.tags0.OAuthClient

\* the columns the grant of l may change
GrantColumns(l) ==
    {"access_token", "token_expiry"}
    \cup IF l.kind = "callback" /\ JsonGet(l.resp.body, "refresh_token", "") # ""
         THEN {"refresh_token"} ELSE {}

\* C29: under sequential execution a successful exchange, refresh or
\* service-account grant changes only access_token and token_expiry (and
\* refresh_token, on an exchange whose response carried one) in the first
\* row of the record; the other columns and the other rows stay as they
\* were.
C29_WriteBackFrame ==
    \A p \in Procs :
        GrantDone(p) =>
            LET old == GrantRecord0(loc[p])
                new == GrantRecord(loc[p])
            IN  /\ ~NeedsDefault(old)
                /\ Len(new.rows) = Len(old.rows)
                /\ \A i \in 2..Len(old.rows) : new.rows[i] = old.rows[i]
                /\ DOMAIN new.rows[1] = DOMAIN old.rows[1]
                /\ \A c \in DOMAIN old.rows[1] \ GrantColumns(loc[p]) :
                      new.rows[1][c] = old.rows[1][c]

\* an exchange written to a record of two rows: the tokens of the first row
\* are new, its client and the second row are as before
C29_Witness ==
    \E p \in Procs :
        /\ GrantDone(p) /\ loc[p].kind = "callback"
        /\ Len(loc[p].tags0.OAuthClient.rows) = 2
        /\ Info(tags.OAuthClient).access_token = "tok1"
        /\ Info(tags.OAuthClient).refresh_token = "r1"
        /\ Info(tags.OAuthClient).client_id = "cid"
        /\ tags.OAuthClient.rows[2] = OAuthRow("cid2", "sec2", "r9", "tok9", 0)

----------------------------------------------------------------------------
(* Properties of the returned token *)

\* C30: whenever get_valid_access_token of a manager or of the selector
\* returns normally the token it returns is not empty, and a grant the code
\* accepted leaves a non-empty access_token in the record.
C30_TokenNonEmpty ==
    \A p \in Procs :
        /\ GetDone(p) /\ loc[p].raised = "none" => loc[p].result # ""
        /\ GrantDone(p) => Info(GrantRecord(loc[p])).access_token # ""

----------------------------------------------------------------------------
(* Properties of the PEM loader *)

\* process p has run _load_private_key on a PEM text
LoadDone(p) == pc[p] = "done" /\ loc[p].kind = "load_key"

\* C31: for a PEM whose header line, body lines and footer line are
\* separated by newline characters, _load_private_key hands the decoder
\* exactly the concatenation of the body lines, which is not empty.
C31_PemBody ==
    \A p \in Procs :
        LoadDone(p) /\ loc[p].key.sep \in {Newline, CrLf} =>
            /\ loc[p].key.b64 = Concat(loc[p].key.body)
            /\ loc[p].key.b64 # <<>>

----------------------------------------------------------------------------
(* Properties of the session state *)

\* state st was generated by a Start of the session and is not the one the
\* most recent Start stored
EarlierState(st) == st \in used /\ (~session.present \/ st # session.value)

\* C32: at most one state is valid per session.  A Start stores the state
\* it generates, which differs from every state generated before; nothing
\* else stores a state; and a callback that carries the state of an earlier
\* Start is answered with status 400 and runs no token exchange.
C32_OneValidState ==
    [][/\ used' # used =>
             /\ session'.present
             /\ session'.value \notin used
             /\ used' = used \cup {session'.value}
       /\ (session' # session /\ used' = used) => ~session'.present
       /\ \A p \in Procs :
             (/\ pc[p] = "idle" /\ loc'[p].kind = "callback"
              /\ EarlierState(loc'[p].req.state.v))
             => /\ pc'[p] = "done"
                /\ loc'[p].status = 400
                /\ ~loc'[p].passed /\ loc'[p].exch = 0
                /\ exchanges' = exchanges /\ tags' = tags]_vars

\* two Starts have run; a callback carrying the state of the first was
\* answered with status 400 while the session holds the state of the second
C32_Witness ==
    \E p \in Procs :
        /\ CallbackDone(p)
        /\ used = StateTokens
        /\ session.present /\ loc[p].session0 = session
        /\ loc[p].req.state.v \in used
        /\ loc[p].req.state.v # session.value
        /\ loc[p].status = 400 /\ loc[p].page = "invalid_state"
        /\ loc[p].exch = 0
====
